---------------------------- MODULE Spec2Model ----------------------------
(***************************************************************************)
(* A model of the agent-dsl Python runtime (src/python/agent_dsl):        *)
(* the dependency resolver and compiler of RxPyRuntime, the execution     *)
(* engine CompiledPipeline.run, and the reactive operators built by       *)
(* _compile_operation.                                                    *)
(*                                                                         *)
(* Streams.  An Observable is modelled by the trace a subscription to it  *)
(* plays: a finite sequence of values followed by one terminal event,     *)
(* completion or an error.  The streams the code builds (just, empty,     *)
(* throw, from_callable) are cold: every subscription replays the trace.  *)
(* Delivery is asynchronous: a subscribed source delivers its next event  *)
(* in a step of its own, so any interleaving of sources is a behaviour.   *)
(* The library calls are read by the meaning of their names: just(v)      *)
(* emits v and completes, throw(e) fails with e, combine_latest emits the *)
(* tuple of latest values, concat subscribes its sources one after the    *)
(* other, flat_map merges the inner streams, retry(n) subscribes at most  *)
(* n times, timeout fails when the bound elapses.                         *)
(*                                                                         *)
(* Values are integers.  Python's None is the integer None below, False   *)
(* is 0 and True is 1 (as in Python, where False == 0 and True == 1).     *)
(***************************************************************************)
EXTENDS Integers, Sequences, FiniteSets, TLC

VARIABLES
    pipeline,   \* the IRPipeline handed to compile (read-only for the code)
    tools,      \* ToolRegistry._tools: tool name -> the stream its function returns
    pc,         \* where the caller is: "start", "compiled", "compile_raised", ...
    compiled,   \* what compile produced: the CompiledPipeline or the exception
    variables,  \* context.variables: input name -> stream, written by run
    call,       \* the arguments of the run call: inputs and options
    result,     \* what run produced: the returned stream or the exception
    sub,        \* the live subscription to the aggregated result
    emitted,    \* what the caller's observer received through on_next, in order
    terminal,   \* the caller's terminal event: Open, Completed or the error
    toolCalls,  \* how often a tool's callable has run
    debugLog,   \* the records _debug_log printed
    operation,  \* the IROperation handed to _compile_expression
    op_observable, \* the stream _compile_expression returned for operation
    osub,       \* the live subscription to op_observable
    flakyCount, \* how often the callable of the tool "flaky" has run
    tool_keys,  \* the keys of ToolRegistry._tools in the dict's (insertion) order
    registered, \* the register calls made so far: <<name, tool_fn>>, in order
    returned    \* what the last get or list_tools call returned

compileVars == <<pipeline, tools, compiled>>
runVars ==
    <<variables, call, result, sub, emitted, terminal, toolCalls, debugLog, flakyCount>>
opVars == <<operation, op_observable, osub>>
registryVars == <<tool_keys, registered, returned>>
vars == <<pipeline, tools, pc, compiled, variables, call, result, sub, emitted,
          terminal, toolCalls, debugLog, operation, op_observable, osub, flakyCount,
          tool_keys, registered, returned>>

-----------------------------------------------------------------------------
(* Values and streams *)

None == -1

NoStep == ""

Completed == "completed"

\* No terminal event yet.
Open == "open"

\* Observable.just(value): one value, then completion.
Just(value) ==
    [vals |-> <<value>>, end |-> Completed, tool |-> "", operator |-> "",
     inputs |-> <<>>, fails |-> 0]

\* rx.empty(): completion at once.
Empty ==
    [vals |-> <<>>, end |-> Completed, tool |-> "", operator |-> "",
     inputs |-> <<>>, fails |-> 0]

\* rx.throw(Exception(message)): failure at once.
Throw(message) ==
    [vals |-> <<>>, end |-> message, tool |-> "", operator |-> "",
     inputs |-> <<>>, fails |-> 0]

\* The stream a tool function returns: subscribing runs the tool's callable,
\* which yields vals and then completes or raises.
ToolStream(tool_name, vals, end) ==
    [vals |-> vals, end |-> end, tool |-> tool_name, operator |-> "",
     inputs |-> <<>>, fails |-> 0]

\* The stream a library operator builds over the input streams: what a
\* subscription to it plays depends on the events of its inputs.
OperatorStream(operator, inputs) ==
    [vals |-> <<>>, end |-> Open, tool |-> "", operator |-> operator,
     inputs |-> inputs, fails |-> 0]

\* No stream: the expression's compilation raised error.
Raises(error) ==
    [vals |-> <<>>, end |-> error, tool |-> "", operator |-> "raise",
     inputs |-> <<>>, fails |-> 0]

-----------------------------------------------------------------------------
(* IR: types.py *)

IRLiteral(value) == [type |-> "literal", value |-> value, name |-> ""]

IRVariable(name) == [type |-> "variable", value |-> None, name |-> name]

IRTool(tool_name) == [type |-> "tool", value |-> None, name |-> tool_name]

\* IROperation(operator, inputs): inputs is the list of input expressions,
\* inputs[1] being Python's inputs[0].
IROperation(operator, inputs) ==
    [type |-> "operation", operator |-> operator, inputs |-> inputs]

IRStep(name, expression, dependencies) ==
    [name |-> name, expression |-> expression, dependencies |-> dependencies]

\* The names of a list of steps, inputs or outputs.
NamesOf(list) == {list[i].name : i \in DOMAIN list}

-----------------------------------------------------------------------------
(* Dependency resolver: RxPyRuntime._topological_sort *)

\* step_map = {step.name: step for step in steps}: a later step of the same
\* name replaces an earlier one.
step_map(steps) ==
    [n \in NamesOf(steps) |->
        steps[CHOOSE i \in DOMAIN steps :
                /\ steps[i].name = n
                /\ \A j \in DOMAIN steps : steps[j].name = n => j <= i]]

\* visited = set(); visiting = set(); result = []; raised: the step named by
\* the "Circular dependency detected" exception, NoStep while none is raised.
SortStart == [visited |-> {}, visiting |-> {}, result |-> <<>>, raised |-> NoStep]

\* Mutant: visit walks no dependency, so the steps keep their declared order.
DepsToVisitNone(step) == <<>>

\* The dependencies visit walks for a step.
DepsToVisit(step) == step.dependencies

\* Mutant: visiting.remove is skipped for a name that is no step.
LeaveUnknownKept(st, step_name) == st

\* Mutant: a name that is no step is appended as a step of its own.
LeaveUnknownAppended(st, step_name) ==
    [st EXCEPT !.result = Append(@, IRStep(step_name, IRLiteral(None), <<>>)),
               !.visiting = @ \ {step_name}]

\* visit of a name the step map does not hold: added to visiting and removed
\* again, nothing else.
LeaveUnknown(st, step_name) == [st EXCEPT !.visiting = @ \ {step_name}]

\* Mutant: the step is put in front of the result.
FinishStepInFront(st, step) ==
    [st EXCEPT !.result = <<step>> \o @,
               !.visited = @ \cup {step.name},
               !.visiting = @ \ {step.name}]

\* The end of visit for a step of the map: appended, marked visited, no
\* longer visiting.
FinishStep(st, step) ==
    [st EXCEPT !.result = Append(@, step),
               !.visited = @ \cup {step.name},
               !.visiting = @ \ {step.name}]

RECURSIVE visit(_, _, _)
RECURSIVE visitAll(_, _, _, _)

visit(steps, step_name, st) ==
    IF st.raised # NoStep THEN st
    ELSE IF step_name \in st.visited THEN st
    ELSE IF step_name \in st.visiting THEN [st EXCEPT !.raised = step_name]
    ELSE LET entered == [st EXCEPT !.visiting = @ \cup {step_name}]
         IN  IF step_name \in DOMAIN step_map(steps)
             THEN LET step == step_map(steps)[step_name]
                      after == visitAll(steps, DepsToVisit(step), 1, entered)
                  IN  IF after.raised # NoStep THEN after
                      ELSE FinishStep(after, step)
             ELSE LeaveUnknown(entered, step_name)

\* for dep in names[i..]: visit(dep); an exception ends the loop.
visitAll(steps, names, i, st) ==
    IF i > Len(names) \/ st.raised # NoStep THEN st
    ELSE visitAll(steps, names, i + 1, visit(steps, names[i], st))

\* Mutant: the top-level loop walks the step list from its end.
topological_sort_backwards(steps) ==
    visitAll(steps, [i \in DOMAIN steps |-> steps[Len(steps) + 1 - i].name], 1, SortStart)

\* for step in steps: visit(step.name); return result.
topological_sort(steps) ==
    visitAll(steps, [i \in DOMAIN steps |-> steps[i].name], 1, SortStart)

-----------------------------------------------------------------------------
(* Tool registry: tools.py *)

\* The structured result record of a default (mock) tool, as a token.
ToolResult == 200

\* Mutant: a name that is registered keeps its first function.
register_keeps_first(registry, name, tool_fn) ==
    [n \in DOMAIN registry \cup {name} |->
        IF n \in DOMAIN registry THEN registry[n] ELSE tool_fn]

\* ToolRegistry.register: self._tools[name] = tool_fn.
register(registry, name, tool_fn) ==
    [n \in DOMAIN registry \cup {name} |-> IF n = name THEN tool_fn ELSE registry[n]]

\* The keys of the dict after self._tools[name] = tool_fn: a new key goes
\* last, a key that is there keeps its place.
register_key(keys, name) ==
    IF \E i \in DOMAIN keys : keys[i] = name THEN keys ELSE Append(keys, name)

\* ToolRegistry.get: self._tools.get(name), the function or None.
get(registry, name) ==
    IF name \in DOMAIN registry
    THEN [found |-> TRUE, tool_fn |-> registry[name]]
    ELSE [found |-> FALSE, tool_fn |-> Empty]

\* ToolRegistry.list_tools: list(self._tools.keys()).
list_tools(keys) == keys

\* The five default tools: each returns Observable.from_callable of a
\* callable that returns one result record.
DefaultToolNames == {"callApi", "runShell", "useMCP", "readFile", "writeFile"}

\* ToolRegistry.__init__ and _register_default_tools.
default_tools == [n \in DefaultToolNames |-> ToolStream(n, <<ToolResult>>, Completed)]

\* The order in which _register_default_tools registers them.
default_keys == <<"callApi", "runShell", "useMCP", "readFile", "writeFile">>

\* The error of a tool whose callable raises.
ToolFailure == "ToolFailure"

\* The registry of a caller who registered tools of its own: one that yields
\* two values, one that completes without a value, one that fails, one that
\* yields a value and then fails.
custom_tools ==
    register(register(register(register(default_tools,
        "multi", ToolStream("multi", <<1, 2>>, Completed)),
        "none", ToolStream("none", <<>>, Completed)),
        "fail", ToolStream("fail", <<>>, ToolFailure)),
        "partial", ToolStream("partial", <<1>>, ToolFailure))

custom_keys ==
    register_key(register_key(register_key(register_key(default_keys,
        "multi"), "none"), "fail"), "partial")

\* A registered tool whose callable raises on its first k runs and returns a
\* result on every later one.
FlakyTool(k) == [ToolStream("flaky", <<ToolResult>>, Completed) EXCEPT !.fails = k]

\* What a subscription to stream plays when the stream's callable has run
\* runs times before: the callable's exception while it still fails.
Played(stream, runs) ==
    IF stream.fails > runs
    THEN [stream EXCEPT !.vals = <<>>, !.end = ToolFailure]
    ELSE stream

-----------------------------------------------------------------------------
(* Expression compiler: RxPyRuntime._compile_expression, compile *)

\* RuntimeContext(tools): no variables, no steps.  raised: the exception that
\* left the compilation of an expression, "" while there is none.
RuntimeContext(registry) ==
    [variables |-> <<>>, steps |-> <<>>, tools |-> registry, raised |-> ""]

\* Mutant: an unknown name raises out of the compilation.
LookupVariableRaises(context, name) ==
    IF name \in DOMAIN context.variables THEN context.variables[name]
    ELSE IF name \in DOMAIN context.steps THEN context.steps[name]
    ELSE Raises("Unknown variable")

\* dict.get(name) or the other dict's: the stream bound to name, looked up
\* first in context.variables and then in context.steps.
LookupVariable(context, name) ==
    IF name \in DOMAIN context.variables THEN context.variables[name]
    ELSE IF name \in DOMAIN context.steps THEN context.steps[name]
    ELSE Throw("Unknown variable")

\* _compile_tool: the registered function is called with (None, config) and
\* its stream is adopted.
compile_tool(tool, context) ==
    IF tool.name \in DOMAIN context.tools THEN context.tools[tool.name]
    ELSE Throw("Unknown tool")

\* The operators whose branch returns throw("... requires exactly 2 inputs")
\* when len(inputs) != 2.
TwoInputOperators == {"map", "flatMap", "filter", "zip", "onError"}

\* The library operator each branch of _compile_operation builds.  map and
\* flatMap build the same flat_map over _apply_function; filter's flat_map
\* pipes _apply_function into a second flat_map.
LibraryOperator(operator) ==
    CASE operator \in {"map", "flatMap"} -> "flat_map"
      [] operator = "filter" -> "flat_map_filter"
      [] operator = "zip" -> "combine_latest"
      [] operator = "merge" -> "merge"
      [] operator = "concat" -> "concat"
      [] operator = "onError" -> "catch"
      [] operator = "retry" -> "retry"
      [] operator = "timeout" -> "timeout"
      [] OTHER -> ""

RECURSIVE compile_expression(_, _)

\* _compile_operation: the inputs are compiled first; then the branch of the
\* operator.  inputs[0] of an empty list raises IndexError.
compile_operation(op, context) ==
    LET inputs == [i \in DOMAIN op.inputs |-> compile_expression(op.inputs[i], context)]
    IN  IF \E i \in DOMAIN inputs : inputs[i].operator = "raise"
        THEN inputs[CHOOSE i \in DOMAIN inputs :
                      /\ inputs[i].operator = "raise"
                      /\ \A j \in DOMAIN inputs : inputs[j].operator = "raise" => i <= j]
        ELSE IF op.operator \in TwoInputOperators /\ Len(inputs) # 2
        THEN Throw("requires exactly 2 inputs")
        ELSE IF op.operator \in {"retry", "timeout"} /\ Len(inputs) = 0
        THEN Raises("IndexError")
        ELSE IF LibraryOperator(op.operator) # ""
        THEN OperatorStream(LibraryOperator(op.operator), inputs)
        ELSE Throw("Unknown operator")

\* _compile_expression.
compile_expression(expr, context) ==
    IF expr.type = "literal" THEN Just(expr.value)
    ELSE IF expr.type = "variable" THEN LookupVariable(context, expr.name)
    ELSE IF expr.type = "operation" THEN compile_operation(expr, context)
    ELSE IF expr.type = "tool" THEN compile_tool(expr, context)
    ELSE Throw("Unknown expression type")

\* _apply_function: fn_expr.pipe(map(lambda _: input_value)), the function
\* stream with each of its values replaced by input_value.
apply_function(fn_expr, input_value) ==
    [fn_expr EXCEPT !.vals = [j \in DOMAIN fn_expr.vals |-> input_value]]

\* Python's truth value of a value: None and 0 (False) are false.
Truthy(value) == value # None /\ value # 0

\* filter's inner lambda: Observable.just(value) if result else empty().
filter_result(r, value) == IF Truthy(r) THEN Just(value) ELSE Empty

\* dict[name] = value.
DictSet(dict, name, value) ==
    [n \in DOMAIN dict \cup {name} |-> IF n = name THEN value ELSE dict[n]]

RECURSIVE compile_steps(_, _, _)

\* for step in sorted_steps[i..]: compile its expression, store the stream in
\* context.steps under the step's name; an exception ends the loop.
compile_steps(sorted_steps, i, context) ==
    IF i > Len(sorted_steps) THEN context
    ELSE LET step == sorted_steps[i]
             observable == compile_expression(step.expression, context)
         IN  IF observable.operator = "raise"
             THEN [context EXCEPT !.raised = observable.end]
             ELSE compile_steps(sorted_steps, i + 1,
                      [context EXCEPT !.steps = DictSet(@, step.name, observable)])

\* No CompiledPipeline.
NoObservables == <<>>

\* RxPyRuntime.compile: the CompiledPipeline (status "ok": its
\* step_observables and the names in the order they were compiled), or the
\* exception of the resolver (status "raised": the step it names) or of an
\* expression's compilation.
compile(p, registry) ==
    LET sorted == topological_sort(p.steps)
        context == compile_steps(sorted.result, 1, RuntimeContext(registry))
    IN  IF sorted.raised # NoStep
        THEN [status |-> "raised", error |-> "Circular dependency detected",
              step |-> sorted.raised, step_names |-> <<>>,
              step_observables |-> NoObservables]
        ELSE IF context.raised # ""
        THEN [status |-> "raised", error |-> context.raised,
              step |-> NoStep, step_names |-> <<>>,
              step_observables |-> NoObservables]
        ELSE [status |-> "ok", error |-> "", step |-> NoStep,
              step_names |-> [i \in DOMAIN sorted.result |-> sorted.result[i].name],
              step_observables |-> context.steps]

RECURSIVE keys_in_order(_, _, _)

\* The keys of the dict filled by step_observables[step.name] = observable
\* for names[i..], after keys: a name met again keeps its first place.
keys_in_order(names, i, keys) ==
    IF i > Len(names) THEN keys
    ELSE keys_in_order(names, i + 1,
             IF \E k \in DOMAIN keys : keys[k] = names[i] THEN keys
             ELSE Append(keys, names[i]))

\* Mutant: the step's expression is compiled when the step is asked for,
\* against the registry and the bound inputs of that moment.
get_step_compiled_late(c, step_name) ==
    IF step_name \in DOMAIN c.step_observables
    THEN [found |-> TRUE,
          observable |->
              compile_expression(step_map(pipeline.steps)[step_name].expression,
                  [RuntimeContext(tools) EXCEPT !.variables = variables,
                                                !.steps = c.step_observables])]
    ELSE [found |-> FALSE, observable |-> Empty]

\* CompiledPipeline.get_step: self.step_observables.get(step_name).
get_step(c, step_name) ==
    IF step_name \in DOMAIN c.step_observables
    THEN [found |-> TRUE, observable |-> c.step_observables[step_name]]
    ELSE [found |-> FALSE, observable |-> Empty]

\* CompiledPipeline.get_step_names: list(self.step_observables.keys()).
get_step_names(c) == keys_in_order(c.step_names, 1, <<>>)

-----------------------------------------------------------------------------
(* Execution engine: CompiledPipeline.run *)

IRInput(name, optional, default_value) ==
    [name |-> name, optional |-> optional, default_value |-> default_value]

IROutput(name, step_name) == [name |-> name, step_name |-> step_name]

\* ExecutionOptions(timeout_ms, retries, debug).
ExecutionOptions(timeout_ms, retries, debug) ==
    [timeout_ms |-> timeout_ms, retries |-> retries, debug |-> debug]

\* value = inputs.get(input_def.name, input_def.default_value): the default
\* only when the caller's mapping has no such key.
InputValue(input_def, inputs) ==
    IF input_def.name \in DOMAIN inputs THEN inputs[input_def.name]
    ELSE input_def.default_value

\* if value is None and not input_def.optional: raise.
InputMissing(input_def, value) == value = None /\ ~input_def.optional

RECURSIVE bind_inputs(_, _, _, _)

\* The loop over pipeline.inputs: each input's stream is stored in
\* context.variables; the first missing required input raises.
bind_inputs(input_defs, i, inputs, context_variables) ==
    IF i > Len(input_defs) THEN [variables |-> context_variables, missing |-> NoStep]
    ELSE LET value == InputValue(input_defs[i], inputs)
         IN  IF InputMissing(input_defs[i], value)
             THEN [variables |-> context_variables, missing |-> input_defs[i].name]
             ELSE bind_inputs(input_defs, i + 1, inputs,
                      DictSet(context_variables, input_defs[i].name, Just(value)))

RECURSIVE collect_outputs(_, _, _, _)

\* The loop over pipeline.outputs: each output's step stream, tagged with the
\* output's name; an output naming no compiled step raises.
collect_outputs(output_defs, i, step_observables, output_observables) ==
    IF i > Len(output_defs) THEN [sources |-> output_observables, unknown |-> NoStep]
    ELSE IF output_defs[i].step_name \notin DOMAIN step_observables
    THEN [sources |-> output_observables, unknown |-> output_defs[i].step_name]
    ELSE collect_outputs(output_defs, i + 1, step_observables,
             Append(output_observables,
                    [name |-> output_defs[i].name,
                     stream |-> step_observables[output_defs[i].step_name]]))

DefaultOptions == ExecutionOptions(None, 0, FALSE)

Raised(error, name) ==
    [status |-> "raised", error |-> error, name |-> name, kind |-> "",
     sources |-> <<>>, options |-> DefaultOptions]

\* Mutant: zero outputs fall through to combine_latest of no stream.
NoOutputsFallThrough(options) ==
    [status |-> "returned", error |-> "", name |-> NoStep, kind |-> "combined",
     sources |-> <<>>, options |-> options]

\* if not output_observables: return Observable.just({}).
NoOutputsResult(options) ==
    [status |-> "returned", error |-> "", name |-> NoStep, kind |-> "just",
     sources |-> <<>>, options |-> DefaultOptions]

\* combine_latest of the tagged output streams, wrapped by the options.
CombinedResult(sources, options) ==
    [status |-> "returned", error |-> "", name |-> NoStep, kind |-> "combined",
     sources |-> sources, options |-> options]

\* CompiledPipeline.run: what it leaves in context.variables, and what it
\* returns or raises.
run(p, step_observables, context_variables, inputs, options) ==
    LET bound == bind_inputs(p.inputs, 1, inputs, context_variables)
        outs == collect_outputs(p.outputs, 1, step_observables, <<>>)
    IN  IF bound.missing # NoStep
        THEN [variables |-> bound.variables,
              result |-> Raised("Required input missing", bound.missing)]
        ELSE IF outs.unknown # NoStep
        THEN [variables |-> bound.variables,
              result |-> Raised("Output references unknown step", outs.unknown)]
        ELSE IF Len(outs.sources) = 0
        THEN [variables |-> bound.variables, result |-> NoOutputsResult(options)]
        ELSE [variables |-> bound.variables,
              result |-> CombinedResult(outs.sources, options)]

-----------------------------------------------------------------------------
(* The aggregated result stream: combine_latest, timeout, retry, debug *)

\* Not subscribed.
NoSub ==
    [attempt |-> 0, nsub |-> 0, pos |-> <<>>, done |-> <<>>, has |-> <<>>,
     latest |-> <<>>, runs |-> <<>>, live |-> FALSE]

\* The k-th subscription to combine_latest over n sources: none subscribed
\* yet, no values, none done.  runs[i] is how often the callable of source i
\* had run before this subscription ran it.
NewAttempt(k, n) ==
    [attempt |-> k, nsub |-> 0,
     pos |-> [i \in 1..n |-> 0],
     done |-> [i \in 1..n |-> FALSE],
     has |-> [i \in 1..n |-> FALSE],
     latest |-> [i \in 1..n |-> None],
     runs |-> [i \in 1..n |-> 0],
     live |-> TRUE]

\* Mutant: every tagging lambda reads the loop variable late, so each value
\* is tagged with the last output's name.
merge_outputs_late_name(sources, latest) ==
    [n \in {sources[Len(sources)].name} |-> latest[Len(sources)]]

\* {k: v for output in outputs for k, v in output.items()} over the tagged
\* latest values {name: value}: a later output of the same name wins.
merge_outputs(sources, latest) ==
    [n \in NamesOf(sources) |->
        latest[CHOOSE i \in DOMAIN sources :
                 /\ sources[i].name = n
                 /\ \A j \in DOMAIN sources : sources[j].name = n => j <= i]]

\* {}.
EmptyMapping == <<>>

\* Mutant: the result is wrapped by timeout whatever the option says.
TimeoutSetAlways(options) == TRUE

\* if options.timeout_ms: the result is wrapped by timeout.
TimeoutSet(options) == options.timeout_ms # None /\ options.timeout_ms # 0

\* Mutant: retry(n) allows n subscriptions after the first.
RetryOnceMore(options, attempt) == options.retries > 0 /\ attempt <= options.retries

\* retry(options.retries) subscribes again after a failure while fewer than
\* options.retries subscriptions were made.
RetryAgain(options, attempt) == options.retries > 0 /\ attempt < options.retries

\* What _debug_log returns: it prints and has no return statement.
debug_log_returns == None

\* The value the debug wrapper's map passes on:
\* _debug_log("Pipeline result:", value) or value.
debug_map(options, value) ==
    IF options.debug /\ debug_log_returns # None THEN debug_log_returns ELSE value

\* The error of the stream the debug wrapper's catch switches to:
\* _debug_log("Pipeline error:", error) or throw(error).
debug_catch(options, error) ==
    IF options.debug /\ debug_log_returns # None THEN debug_log_returns ELSE error

\* Mutant: the trace record is printed whatever options.debug says.
DebugNextAlways(log, options, value) ==
    Append(log, [message |-> "Pipeline result:", value |-> value, error |-> ""])

\* The debug wrapper's map: _debug_log("Pipeline result:", value) or value.
DebugNext(log, options, value) ==
    IF options.debug
    THEN Append(log, [message |-> "Pipeline result:", value |-> value, error |-> ""])
    ELSE log

\* The debug wrapper's catch: _debug_log("Pipeline error:", error) or throw(error).
DebugError(log, options, error) ==
    IF options.debug
    THEN Append(log, [message |-> "Pipeline error:", value |-> EmptyMapping, error |-> error])
    ELSE log

\* combine_latest's on_next after values[i] = x: emit when every source has
\* a value.
EmitsOnNext(s) == \A j \in DOMAIN s.has : s.has[j]

\* Mutant: an error reaches the caller and the sources stay subscribed.
FailKeepsSubscription(s, error) ==
    /\ sub' = s
    /\ terminal' = error
    /\ debugLog' = DebugError(debugLog, result.options, error)
    /\ UNCHANGED emitted

\* The error passed on by a source, or raised by the timeout, reaches retry
\* with the subscription in state s: a new subscription, or the caller's
\* on_error.
Fail(s, error) ==
    IF RetryAgain(result.options, s.attempt)
    THEN /\ sub' = NewAttempt(s.attempt + 1, Len(result.sources))
         /\ UNCHANGED <<emitted, terminal, debugLog>>
    ELSE /\ sub' = [s EXCEPT !.live = FALSE]
         /\ terminal' = debug_catch(result.options, error)
         /\ debugLog' = DebugError(debugLog, result.options, error)
         /\ UNCHANGED emitted

\* on_next(x) of source i.
OnNext(i, x) ==
    LET s == [sub EXCEPT !.pos[i] = @ + 1, !.latest[i] = x, !.has[i] = TRUE]
        value == merge_outputs(result.sources, s.latest)
    IN  IF EmitsOnNext(s)
        THEN /\ sub' = s
             /\ emitted' = Append(emitted, debug_map(result.options, value))
             /\ debugLog' = DebugNext(debugLog, result.options, value)
             /\ UNCHANGED terminal
        ELSE IF \A j \in DOMAIN s.done : j # i => s.done[j]
        THEN /\ sub' = [s EXCEPT !.live = FALSE]
             /\ terminal' = Completed
             /\ UNCHANGED <<emitted, debugLog>>
        ELSE /\ sub' = s
             /\ UNCHANGED <<emitted, terminal, debugLog>>

\* on_completed of source i.
OnCompleted(i) ==
    LET s == [sub EXCEPT !.pos[i] = @ + 1, !.done[i] = TRUE]
    IN  IF \A j \in DOMAIN s.done : s.done[j]
        THEN /\ sub' = [s EXCEPT !.live = FALSE]
             /\ terminal' = Completed
             /\ UNCHANGED <<emitted, debugLog>>
        ELSE /\ sub' = s
             /\ UNCHANGED <<emitted, terminal, debugLog>>

-----------------------------------------------------------------------------
(* Actions *)

NotCompiled ==
    [status |-> "none", error |-> "", step |-> NoStep, step_names |-> <<>>,
     step_observables |-> NoObservables]

NoCall == [inputs |-> <<>>, options |-> DefaultOptions]

NoResult ==
    [status |-> "none", error |-> "", name |-> NoStep, kind |-> "",
     sources |-> <<>>, options |-> DefaultOptions]

\* runtime.compile(pipeline).
Compile ==
    /\ pc = "start"
    /\ compiled' = compile(pipeline, tools)
    /\ pc' = IF compiled'.status = "ok" THEN "compiled" ELSE "compile_raised"
    /\ UNCHANGED <<pipeline, tools>>
    /\ UNCHANGED registryVars
    /\ UNCHANGED runVars
    /\ UNCHANGED opVars

\* compiled.run(inputs, options).
Run(inputs, options) ==
    /\ pc = "compiled"
    /\ LET r == run(pipeline, compiled.step_observables, variables, inputs, options)
       IN  /\ variables' = r.variables
           /\ result' = r.result
           /\ pc' = IF r.result.status = "raised" THEN "run_raised" ELSE "run_returned"
    /\ call' = [inputs |-> inputs, options |-> options]
    /\ UNCHANGED compileVars
    /\ UNCHANGED registryVars
    /\ UNCHANGED <<sub, emitted, terminal, toolCalls, debugLog, flakyCount>>
    /\ UNCHANGED opVars

\* compiled.run(inputs, options), called again on the same CompiledPipeline
\* before the stream of the call before is subscribed.
RunAgain(inputs, options) ==
    /\ pc \in {"run_raised", "run_returned"}
    /\ LET r == run(pipeline, compiled.step_observables, variables, inputs, options)
       IN  /\ variables' = r.variables
           /\ result' = r.result
           /\ pc' = IF r.result.status = "raised" THEN "run_raised" ELSE "run_returned"
    /\ call' = [inputs |-> inputs, options |-> options]
    /\ UNCHANGED compileVars
    /\ UNCHANGED registryVars
    /\ UNCHANGED <<sub, emitted, terminal, toolCalls, debugLog, flakyCount>>
    /\ UNCHANGED opVars

\* The caller subscribes to the stream run returned.  Observable.just({})
\* emits the empty mapping and completes; throw(...) fails; the combined
\* stream starts its first subscription.
SubscribeResult ==
    /\ pc = "run_returned"
    /\ pc' = "subscribed"
    /\ IF result.kind = "just"
       THEN /\ emitted' = Append(emitted, EmptyMapping)
            /\ terminal' = Completed
            /\ UNCHANGED sub
       ELSE IF result.kind = "throw"
       THEN /\ terminal' = result.error
            /\ UNCHANGED <<sub, emitted>>
       ELSE /\ sub' = NewAttempt(1, Len(result.sources))
            /\ UNCHANGED <<emitted, terminal>>
    /\ UNCHANGED compileVars
    /\ UNCHANGED registryVars
    /\ UNCHANGED <<variables, call, result, toolCalls, debugLog, flakyCount>>
    /\ UNCHANGED opVars

\* combine_latest subscribes to its next source; subscribing to a tool's
\* stream runs the tool's callable.
SubscribeSource ==
    /\ pc = "subscribed"
    /\ sub.live
    /\ sub.nsub < Len(result.sources)
    /\ sub' = [sub EXCEPT !.nsub = @ + 1, !.runs[sub.nsub + 1] = flakyCount]
    /\ toolCalls' = IF result.sources[sub.nsub + 1].stream.tool # ""
                    THEN toolCalls + 1 ELSE toolCalls
    /\ flakyCount' = IF result.sources[sub.nsub + 1].stream.tool = "flaky"
                     THEN flakyCount + 1 ELSE flakyCount
    /\ UNCHANGED compileVars
    /\ UNCHANGED registryVars
    /\ UNCHANGED <<pc, variables, call, result, emitted, terminal, debugLog>>
    /\ UNCHANGED opVars

\* A subscribed source delivers its next event.
Deliver(i) ==
    /\ pc = "subscribed"
    /\ sub.live
    /\ i \in 1..sub.nsub
    /\ sub.pos[i] <= Len(Played(result.sources[i].stream, sub.runs[i]).vals)
    /\ LET stream == Played(result.sources[i].stream, sub.runs[i])
           k == sub.pos[i] + 1
       IN  IF k <= Len(stream.vals) THEN OnNext(i, stream.vals[k])
           ELSE IF stream.end = Completed THEN OnCompleted(i)
           ELSE Fail([sub EXCEPT !.pos[i] = @ + 1], stream.end)
    /\ UNCHANGED compileVars
    /\ UNCHANGED registryVars
    /\ UNCHANGED <<pc, variables, call, result, toolCalls, flakyCount>>
    /\ UNCHANGED opVars

\* The time bound of the timeout wrapper elapses before the next event.
TimeoutFires ==
    /\ pc = "subscribed"
    /\ sub.live
    /\ TimeoutSet(result.options)
    /\ Fail(sub, "Timeout")
    /\ UNCHANGED compileVars
    /\ UNCHANGED registryVars
    /\ UNCHANGED <<pc, variables, call, result, toolCalls, flakyCount>>
    /\ UNCHANGED opVars

-----------------------------------------------------------------------------
(* run_pipeline_json *)

\* json.loads(pipeline_json): the value a well-formed text denotes, or
\* JSONDecodeError.
json_loads(pipeline_json) ==
    IF pipeline_json.syntax = "json"
    THEN [ok |-> TRUE, data |-> pipeline_json.value, error |-> ""]
    ELSE [ok |-> FALSE, data |-> <<>>, error |-> "JSONDecodeError"]

\* Field(pattern=r"^[a-zA-Z_][a-zA-Z0-9_]*$"): of the names drawn, the
\* empty name and the name that starts with a digit do not match.
matches_name_pattern(name) == name \notin {"", "9z"}

\* The type tags of the members of the IRExpression union.
ExpressionTypes ==
    {"literal", "variable", "function", "operation", "tool", "conditional", "loop"}

\* IRType.
IRTypes == {"string", "number", "boolean", "object", "array", "any"}

\* Validation of one step object: name and expression are required, the
\* name matches the pattern, the expression is a member of IRExpression.
valid_step(s) ==
    /\ {"name", "expression"} \subseteq DOMAIN s
    /\ matches_name_pattern(s.name)
    /\ s.expression.type \in ExpressionTypes

\* Validation of one input object: name and type are required.
valid_input(i) ==
    /\ {"name", "type"} \subseteq DOMAIN i
    /\ matches_name_pattern(i.name)
    /\ i.type \in IRTypes

\* Validation of one output object: name, step_name and type are required.
valid_output(o) ==
    /\ {"name", "step_name", "type"} \subseteq DOMAIN o
    /\ matches_name_pattern(o.name)
    /\ o.type \in IRTypes

\* The IRStep of a valid step object: dependencies defaults to [].
validated_step(s) ==
    IRStep(s.name, s.expression,
           IF "dependencies" \in DOMAIN s THEN s.dependencies ELSE <<>>)

\* The IRInput of a valid input object: optional defaults to False,
\* default_value to None.
validated_input(i) ==
    IRInput(i.name,
            IF "optional" \in DOMAIN i THEN i.optional ELSE FALSE,
            IF "default_value" \in DOMAIN i THEN i.default_value ELSE None)

\* The IROutput of a valid output object.
validated_output(o) == IROutput(o.name, o.step_name)

\* IRPipeline.model_validate(pipeline_data): inputs, steps and outputs are
\* required lists of valid objects; the IRPipeline, or ValidationError.
model_validate(pipeline_data) ==
    IF /\ {"inputs", "steps", "outputs"} \subseteq DOMAIN pipeline_data
       /\ \A k \in DOMAIN pipeline_data.inputs : valid_input(pipeline_data.inputs[k])
       /\ \A k \in DOMAIN pipeline_data.steps : valid_step(pipeline_data.steps[k])
       /\ \A k \in DOMAIN pipeline_data.outputs : valid_output(pipeline_data.outputs[k])
    THEN [ok |-> TRUE, error |-> "",
          pipeline |->
              [inputs |-> [k \in DOMAIN pipeline_data.inputs |->
                              validated_input(pipeline_data.inputs[k])],
               steps |-> [k \in DOMAIN pipeline_data.steps |->
                              validated_step(pipeline_data.steps[k])],
               outputs |-> [k \in DOMAIN pipeline_data.outputs |->
                              validated_output(pipeline_data.outputs[k])]]]
    ELSE [ok |-> FALSE, error |-> "ValidationError",
          pipeline |-> [inputs |-> <<>>, steps |-> <<>>, outputs |-> <<>>]]

\* Mutant: the exception is raised again to the caller.
raised_again(e) == Raised(e, NoStep)

\* except Exception as e: return throw(Exception(f"Failed to run pipeline:
\* {str(e)}")).
failed_to_run(e) ==
    [status |-> "returned", error |-> "Failed to run pipeline: " \o e,
     name |-> NoStep, kind |-> "throw", sources |-> <<>>,
     options |-> DefaultOptions]

\* run_pipeline_json: the pipeline it validated, what it compiled, the
\* inputs it bound, and the stream it returns.
run_pipeline_json(pipeline_json, inputs, options) ==
    LET loaded == json_loads(pipeline_json)
        validated == model_validate(loaded.data)
        c == compile(validated.pipeline, default_tools)
        r == run(validated.pipeline, c.step_observables, <<>>, inputs, options)
        nothing == [inputs |-> <<>>, steps |-> <<>>, outputs |-> <<>>]
    IN  IF ~loaded.ok
        THEN [pipeline |-> nothing, compiled |-> NotCompiled, variables |-> <<>>,
              result |-> failed_to_run(loaded.error)]
        ELSE IF ~validated.ok
        THEN [pipeline |-> nothing, compiled |-> NotCompiled, variables |-> <<>>,
              result |-> failed_to_run(validated.error)]
        ELSE IF c.status = "raised"
        THEN [pipeline |-> validated.pipeline, compiled |-> c, variables |-> <<>>,
              result |-> failed_to_run(c.error)]
        ELSE IF r.result.status = "raised"
        THEN [pipeline |-> validated.pipeline, compiled |-> c,
              variables |-> r.variables,
              result |-> failed_to_run(r.result.error)]
        ELSE [pipeline |-> validated.pipeline, compiled |-> c,
              variables |-> r.variables, result |-> r.result]

\* run_pipeline_json(pipeline_json, inputs, options), on a runtime of its
\* own making.
RunPipelineJson(pipeline_json, inputs, options) ==
    /\ pc = "start"
    /\ LET r == run_pipeline_json(pipeline_json, inputs, options)
       IN  /\ pipeline' = r.pipeline
           /\ compiled' = r.compiled
           /\ variables' = r.variables
           /\ result' = r.result
           /\ pc' = IF r.result.status = "raised" THEN "run_raised" ELSE "run_returned"
    /\ tools' = default_tools
    /\ call' = [inputs |-> inputs, options |-> options, pipeline_json |-> pipeline_json]
    /\ UNCHANGED registryVars
    /\ UNCHANGED <<sub, emitted, terminal, toolCalls, debugLog, flakyCount>>
    /\ UNCHANGED opVars

\* Nothing returned yet.
NoReturn == [call |-> "", name |-> "", found |-> FALSE, tool_fn |-> Empty, names |-> <<>>]

\* registry.register(name, tool_fn).
Register(name, tool_fn) ==
    /\ tools' = register(tools, name, tool_fn)
    /\ tool_keys' = register_key(tool_keys, name)
    /\ registered' = Append(registered, <<name, tool_fn>>)
    /\ UNCHANGED <<pipeline, compiled, pc, returned>>
    /\ UNCHANGED runVars
    /\ UNCHANGED opVars

\* registry.get(name).
Get(name) ==
    /\ returned' = [call |-> "get", name |-> name, found |-> get(tools, name).found,
                    tool_fn |-> get(tools, name).tool_fn, names |-> <<>>]
    /\ UNCHANGED <<pc, tool_keys, registered>>
    /\ UNCHANGED compileVars
    /\ UNCHANGED runVars
    /\ UNCHANGED opVars

\* registry.list_tools().
ListTools ==
    /\ returned' = [call |-> "list_tools", name |-> "", found |-> FALSE,
                    tool_fn |-> Empty, names |-> list_tools(tool_keys)]
    /\ UNCHANGED <<pc, tool_keys, registered>>
    /\ UNCHANGED compileVars
    /\ UNCHANGED runVars
    /\ UNCHANGED opVars

\* compiled.get_step(name).
GetStep(name) ==
    /\ pc \in {"compiled", "run_raised", "run_returned"}
    /\ returned' = [call |-> "get_step", name |-> name,
                    found |-> get_step(compiled, name).found,
                    tool_fn |-> get_step(compiled, name).observable, names |-> <<>>]
    /\ UNCHANGED <<pc, tool_keys, registered>>
    /\ UNCHANGED compileVars
    /\ UNCHANGED runVars
    /\ UNCHANGED opVars

\* compiled.get_step_names().
GetStepNames ==
    /\ pc \in {"compiled", "run_raised", "run_returned"}
    /\ returned' = [call |-> "get_step_names", name |-> "", found |-> FALSE,
                    tool_fn |-> Empty, names |-> get_step_names(compiled)]
    /\ UNCHANGED <<pc, tool_keys, registered>>
    /\ UNCHANGED compileVars
    /\ UNCHANGED runVars
    /\ UNCHANGED opVars

-----------------------------------------------------------------------------
(* The operator streams: flat_map over _apply_function, combine_latest,    *)
(* merge, concat, catch                                                    *)

NoOperation == IROperation("", <<>>)

NoObservable == OperatorStream("none", <<>>)

\* Not subscribed.
NoOperatorSub ==
    [pos |-> <<>>, subscribed |-> {}, inner |-> <<>>, own |-> 0, attempt |-> 0,
     runs |-> 0, live |-> FALSE]

\* A subscription to a stream over n inputs: no input subscribed yet.
\* pos[i] counts the events input i has delivered, own those of a stream
\* without inputs; inner lists flat_map's inner subscriptions, one for each
\* value of the outer stream, with the value and the events delivered;
\* attempt counts retry's subscriptions to its source, and runs is how often
\* the source's callable had run before the last of them ran it.
NewOperatorSub(n) ==
    [pos |-> [i \in 1..n |-> 0], subscribed |-> {}, inner |-> <<>>, own |-> 0,
     attempt |-> 1, runs |-> 0, live |-> TRUE]

\* Subscribing to a tool's stream runs the tool's callable.
ToolRuns(stream) == IF stream.tool # "" THEN 1 ELSE 0

\* Mutant: every input is subscribed at once, as merge does.
concat_all_at_once(inputs) == DOMAIN inputs

\* concat(*inputs) at subscription: the first input is subscribed, if any.
concat_first(inputs) == IF Len(inputs) = 0 THEN {} ELSE {1}

\* Mutant: the inputs are subscribed one after the other, as concat does.
merge_one_at_a_time(inputs) == IF Len(inputs) = 0 THEN {} ELSE {1}

\* merge(*inputs) at subscription: every input is subscribed.
merge_all(inputs) == DOMAIN inputs

\* The inputs a subscription to the operator's stream subscribes at once:
\* all of them for merge and combine_latest, the first for concat, the
\* source (inputs[0]) for flat_map and catch.
first_subscriptions(stream) ==
    CASE stream.operator = "" -> {}
      [] stream.operator = "concat" -> concat_first(stream.inputs)
      [] stream.operator = "merge" -> merge_all(stream.inputs)
      [] stream.operator = "combine_latest" -> DOMAIN stream.inputs
      [] OTHER -> {1}

\* The input has delivered its terminal event.
Exhausted(stream, pos) == pos > Len(stream.vals)

\* The number of values input i has delivered in subscription s.
Produced(s, i) ==
    IF Exhausted(op_observable.inputs[i], s.pos[i])
    THEN Len(op_observable.inputs[i].vals) ELSE s.pos[i]

\* Mutant: the pair is index-aligned, as a strict zip's would be.
aligned_pair(s) ==
    LET m == IF Produced(s, 1) < Produced(s, 2) THEN Produced(s, 1) ELSE Produced(s, 2)
    IN  <<op_observable.inputs[1].vals[m], op_observable.inputs[2].vals[m]>>

\* combine_latest(inputs[0], inputs[1]) emits the tuple of the latest value
\* of each input.
latest_pair(s) ==
    <<op_observable.inputs[1].vals[Produced(s, 1)],
      op_observable.inputs[2].vals[Produced(s, 2)]>>

\* Mutant: the handler passes the error on.
catch_rethrows(inputs, error) == Throw(error)

\* catch(lambda error: self._apply_function(inputs[1], error)): the stream
\* the output continues with after inputs[0] failed with error.
catch_handler(inputs, error) == apply_function(inputs[2], error)

\* The stream inner subscription k plays: _apply_function(inputs[1], value)
\* under flat_map, the handler's stream for the error under catch.
InnerStream(k, s) ==
    IF op_observable.operator = "catch"
    THEN catch_handler(op_observable.inputs, s.inner[k].value)
    ELSE apply_function(op_observable.inputs[2], s.inner[k].value)

\* flat_map's completion: the outer stream and every inner stream completed.
flat_map_done(s) ==
    /\ Exhausted(op_observable.inputs[1], s.pos[1])
    /\ \A k \in DOMAIN s.inner :
           Exhausted(apply_function(op_observable.inputs[2], s.inner[k].value),
                     s.inner[k].pos)

\* merge's and combine_latest's completion: every input completed.
all_inputs_done(s) ==
    \A j \in DOMAIN op_observable.inputs : Exhausted(op_observable.inputs[j], s.pos[j])

\* on_error(error) reaches the observer: the subscription ends.
OperatorFails(s, error) ==
    /\ osub' = [s EXCEPT !.live = FALSE]
    /\ terminal' = error
    /\ UNCHANGED <<emitted, toolCalls>>

\* on_completed reaches the observer.
OperatorCompletes(s) ==
    /\ osub' = [s EXCEPT !.live = FALSE]
    /\ terminal' = Completed
    /\ UNCHANGED <<emitted, toolCalls>>

\* on_next(x) of input i.  flat_map subscribes the inner stream
\* _apply_function(inputs[1], x); concat, merge and catch pass x on;
\* combine_latest emits the latest pair once both inputs have a value, and
\* completes when the other input completed without one.
InputNext(s, i, x) ==
    IF op_observable.operator \in {"concat", "merge", "catch"}
    THEN /\ osub' = s
         /\ emitted' = Append(emitted, x)
         /\ UNCHANGED <<terminal, toolCalls>>
    ELSE IF op_observable.operator = "combine_latest"
    THEN IF \A j \in DOMAIN s.pos : Produced(s, j) >= 1
         THEN /\ osub' = s
              /\ emitted' = Append(emitted, latest_pair(s))
              /\ UNCHANGED <<terminal, toolCalls>>
         ELSE IF \A j \in DOMAIN s.pos :
                     j # i => Exhausted(op_observable.inputs[j], s.pos[j])
         THEN OperatorCompletes(s)
         ELSE /\ osub' = s
              /\ UNCHANGED <<emitted, terminal, toolCalls>>
    ELSE /\ osub' = [s EXCEPT !.inner = Append(@, [value |-> x, pos |-> 0])]
         /\ toolCalls' = toolCalls + ToolRuns(op_observable.inputs[2])
         /\ UNCHANGED <<emitted, terminal>>

\* on_completed of input i.  concat subscribes the next input or completes;
\* merge and combine_latest complete when every input has; catch completes
\* with its source; flat_map completes when no inner stream is left.
InputCompleted(s, i) ==
    IF op_observable.operator = "concat"
    THEN IF i < Len(op_observable.inputs)
         THEN /\ osub' = [s EXCEPT !.subscribed = @ \cup {i + 1}]
              /\ toolCalls' = toolCalls + ToolRuns(op_observable.inputs[i + 1])
              /\ UNCHANGED <<emitted, terminal>>
         ELSE OperatorCompletes(s)
    ELSE IF op_observable.operator = "catch" THEN OperatorCompletes(s)
    ELSE IF op_observable.operator \in {"merge", "combine_latest"}
    THEN IF all_inputs_done(s) THEN OperatorCompletes(s)
         ELSE /\ osub' = s
              /\ UNCHANGED <<emitted, terminal, toolCalls>>
    ELSE IF flat_map_done(s) THEN OperatorCompletes(s)
    ELSE /\ osub' = s
         /\ UNCHANGED <<emitted, terminal, toolCalls>>

\* on_error(error) of input i.  catch subscribes the handler's stream in
\* place of its source; every other operator passes the error on.
InputError(s, i, error) ==
    IF op_observable.operator = "catch"
    THEN /\ osub' = [s EXCEPT !.inner = Append(@, [value |-> error, pos |-> 0])]
         /\ toolCalls' = toolCalls + ToolRuns(catch_handler(op_observable.inputs, error))
         /\ UNCHANGED <<emitted, terminal>>
    ELSE OperatorFails(s, error)

\* on_next(r) of the inner stream subscribed for value.  map and flatMap
\* pass r on; filter passes on what filter_result(r, value) plays.
InnerNext(s, r, value) ==
    /\ osub' = s
    /\ emitted' = IF op_observable.operator = "flat_map_filter"
                  THEN emitted \o filter_result(r, value).vals
                  ELSE Append(emitted, r)
    /\ UNCHANGED <<terminal, toolCalls>>

\* retry_count = 3.
retry_count == 3

\* Mutant: the limit is the value of the second input, if it has one.
retry_limit_from_input(inputs) ==
    IF Len(inputs) > 1 /\ inputs[2].vals # <<>> THEN inputs[2].vals[1] ELSE retry_count

\* The argument of retry: retry_count, whatever the inputs after the first.
retry_limit(inputs) == retry_count

\* _compile_expression(operation, context).
CompileOperation ==
    /\ pc = "start"
    /\ operation # NoOperation
    /\ op_observable' = compile_expression(operation, RuntimeContext(tools))
    /\ pc' = IF op_observable'.operator = "raise" THEN "compile_raised" ELSE "op_compiled"
    /\ UNCHANGED <<operation, osub>>
    /\ UNCHANGED compileVars
    /\ UNCHANGED registryVars
    /\ UNCHANGED runVars

\* An observer subscribes to the operation's stream.
SubscribeOperation ==
    /\ pc = "op_compiled"
    /\ pc' = "op_subscribed"
    /\ LET s == NewOperatorSub(Len(op_observable.inputs))
           first == first_subscriptions(op_observable)
       IN  /\ toolCalls' = toolCalls
                   + Cardinality({i \in first : op_observable.inputs[i].tool # ""})
           /\ flakyCount' = flakyCount
                   + Cardinality({i \in first : op_observable.inputs[i].tool = "flaky"})
           /\ IF op_observable.operator \in {"concat", "merge"} /\ first = {}
              THEN /\ osub' = [s EXCEPT !.live = FALSE]
                   /\ terminal' = Completed
              ELSE /\ osub' = [s EXCEPT !.subscribed = first, !.runs = flakyCount]
                   /\ UNCHANGED terminal
    /\ UNCHANGED <<operation, op_observable>>
    /\ UNCHANGED compileVars
    /\ UNCHANGED registryVars
    /\ UNCHANGED <<variables, call, result, sub, emitted, debugLog>>

\* The stream of the operation has no inputs (throw): its next event.
ObservableEvent ==
    /\ pc = "op_subscribed"
    /\ osub.live
    /\ op_observable.operator = ""
    /\ LET k == osub.own + 1
           s == [osub EXCEPT !.own = k]
       IN  IF k <= Len(op_observable.vals)
           THEN /\ osub' = s
                /\ emitted' = Append(emitted, op_observable.vals[k])
                /\ UNCHANGED <<terminal, toolCalls>>
           ELSE IF op_observable.end = Completed THEN OperatorCompletes(s)
           ELSE OperatorFails(s, op_observable.end)
    /\ UNCHANGED <<operation, op_observable>>
    /\ UNCHANGED compileVars
    /\ UNCHANGED registryVars
    /\ UNCHANGED <<pc, variables, call, result, sub, debugLog, flakyCount>>

\* A subscribed input delivers its next event.
InputEvent(i) ==
    /\ pc = "op_subscribed"
    /\ osub.live
    /\ op_observable.operator # "retry"
    /\ i \in osub.subscribed
    /\ ~Exhausted(op_observable.inputs[i], osub.pos[i])
    /\ LET stream == op_observable.inputs[i]
           k == osub.pos[i] + 1
           s == [osub EXCEPT !.pos[i] = k]
       IN  IF k <= Len(stream.vals) THEN InputNext(s, i, stream.vals[k])
           ELSE IF stream.end = Completed THEN InputCompleted(s, i)
           ELSE InputError(s, i, stream.end)
    /\ UNCHANGED <<operation, op_observable>>
    /\ UNCHANGED compileVars
    /\ UNCHANGED registryVars
    /\ UNCHANGED <<pc, variables, call, result, sub, debugLog, flakyCount>>

\* An inner stream of flat_map, or the handler's stream of catch, delivers
\* its next event.
InnerEvent(k) ==
    /\ pc = "op_subscribed"
    /\ osub.live
    /\ k \in DOMAIN osub.inner
    /\ LET value == osub.inner[k].value
           stream == InnerStream(k, osub)
           j == osub.inner[k].pos + 1
           s == [osub EXCEPT !.inner[k].pos = j]
       IN  /\ ~Exhausted(stream, osub.inner[k].pos)
           /\ IF j <= Len(stream.vals) THEN InnerNext(s, stream.vals[j], value)
              ELSE IF stream.end # Completed THEN OperatorFails(s, stream.end)
              ELSE IF op_observable.operator = "catch" \/ flat_map_done(s)
              THEN OperatorCompletes(s)
              ELSE /\ osub' = s
                   /\ UNCHANGED <<emitted, terminal, toolCalls>>
    /\ UNCHANGED <<operation, op_observable>>
    /\ UNCHANGED compileVars
    /\ UNCHANGED registryVars
    /\ UNCHANGED <<pc, variables, call, result, sub, debugLog, flakyCount>>

\* The source of retry (inputs[0]) delivers its next event in the current
\* subscription: a value is passed on, completion completes the output, and
\* an error makes retry subscribe the source again while fewer than
\* retry_limit subscriptions were made, and is passed on otherwise.
RetryEvent ==
    /\ pc = "op_subscribed"
    /\ osub.live
    /\ op_observable.operator = "retry"
    /\ LET source == op_observable.inputs[1]
           stream == Played(source, osub.runs)
           k == osub.pos[1] + 1
           s == [osub EXCEPT !.pos[1] = k]
       IN  IF k <= Len(stream.vals)
           THEN /\ osub' = s
                /\ emitted' = Append(emitted, stream.vals[k])
                /\ UNCHANGED <<terminal, toolCalls, flakyCount>>
           ELSE IF stream.end = Completed
           THEN OperatorCompletes(s) /\ UNCHANGED flakyCount
           ELSE IF osub.attempt < retry_limit(op_observable.inputs)
           THEN /\ osub' = [osub EXCEPT !.pos[1] = 0, !.attempt = @ + 1,
                                        !.runs = flakyCount]
                /\ toolCalls' = toolCalls + ToolRuns(source)
                /\ flakyCount' = IF source.tool = "flaky"
                                 THEN flakyCount + 1 ELSE flakyCount
                /\ UNCHANGED <<emitted, terminal>>
           ELSE OperatorFails(s, stream.end) /\ UNCHANGED flakyCount
    /\ UNCHANGED <<operation, op_observable>>
    /\ UNCHANGED compileVars
    /\ UNCHANGED registryVars
    /\ UNCHANGED <<pc, variables, call, result, sub, debugLog>>

-----------------------------------------------------------------------------
(* Bounds and the inputs drawn *)

MaxDeps == 2

MaxInputs == 2

MaxOutputs == 2

MaxRetries == 2

MaxOperationInputs == 3
MaxRegistrations == 3
MaxToolChanges == 2

Seqs(S, n) == UNION {[1..k -> S] : k \in 0..n}

Injective(s) == \A i, j \in DOMAIN s : s[i] = s[j] => i = j

StepNames == {"a", "b", "c"}

\* A dependency name that no step declares.
UnknownStep == "z"

DepLists == {d \in Seqs(StepNames \cup {UnknownStep}, MaxDeps) : Injective(d)}

\* Step name lists without a repeated name.
StepNameLists == {s \in Seqs(StepNames, Cardinality(StepNames)) : Injective(s)}

\* The pipeline of steps named ns, step i depending on d[i].
SortPipeline(ns, d) ==
    [inputs |-> <<>>,
     steps |-> [i \in DOMAIN ns |-> IRStep(ns[i], IRLiteral(5), d[i])],
     outputs |-> <<>>]

InputNamePool == <<"x", "y", "w">>

OutputNamePool == <<"o1", "o2", "o3">>

InputLists(n) ==
    UNION {{[i \in 1..k |-> IRInput(InputNamePool[i], o[i], d[i])] :
               o \in [1..k -> BOOLEAN], d \in [1..k -> {None, 7}]} :
           k \in 0..n}

OutputLists(n, step_names) ==
    UNION {{[i \in 1..k |-> IROutput(OutputNamePool[i], t[i])] :
               t \in [1..k -> step_names]} :
           k \in 0..n}

RunExpressions ==
    {IRLiteral(5), IRVariable("x")}
        \cup {IRTool(t) : t \in {"callApi", "multi", "none", "partial"}}

RunStepLists ==
    {<<>>}
        \cup {<<IRStep("a", e, <<>>)>> : e \in RunExpressions}
        \cup {<<IRStep("a", e1, <<>>), IRStep("b", e2, <<"a">>)>> :
                 e1 \in RunExpressions, e2 \in RunExpressions \cup {IRVariable("a")}}

Pipeline(inputs, steps, outputs) ==
    [inputs |-> inputs, steps |-> steps, outputs |-> outputs]

\* Pipelines that vary the declared inputs.
InitBind ==
    \E i \in InputLists(MaxInputs), o \in OutputLists(1, {"a"}) :
        pipeline = Pipeline(i, <<IRStep("a", IRTool("callApi"), <<>>)>>, o)

\* Pipelines that vary the steps and the outputs.
InitStream ==
    \E i \in {<<>>, <<IRInput("x", FALSE, None)>>, <<IRInput("x", FALSE, 7)>>},
       s \in RunStepLists,
       o \in OutputLists(MaxOutputs, {"a", "b", "q"}) :
        pipeline = Pipeline(i, s, o)

\* The caller's inputs mapping: any of the declared names, each with a value
\* or None.
CallerInputs(p) == UNION {[S -> {None, 5}] : S \in SUBSET NamesOf(p.inputs)}

OptionSets ==
    {ExecutionOptions(t, r, d) : t \in {None, 50}, r \in 0..MaxRetries, d \in BOOLEAN}

\* The most failing runs of the flaky tool's callable.
MaxFails == 3

\* Pipelines over the flaky tool: alone, or beside a step that never fails.
RetryStepLists ==
    {<<IRStep("a", IRTool("flaky"), <<>>)>>}
        \cup {<<IRStep("a", IRTool("flaky"), <<>>), IRStep("b", e, <<>>)>> :
                 e \in {IRLiteral(5), IRTool("multi")}}

\* The operators drawn, and one of OperatorType that _compile_operation has
\* no branch for.
OperatorNames ==
    {"map", "flatMap", "filter", "zip", "merge", "concat", "onError", "switchMap"}

\* The input expressions of an operation: literals (0 is False, 1 is True)
\* and the tools of custom_tools.
OperationInputs ==
    {IRLiteral(v) : v \in {0, 1, 5, 10}}
        \cup {IRTool(t) : t \in {"multi", "none", "fail", "partial"}}

-----------------------------------------------------------------------------
(* Specifications *)

InitIdle ==
    /\ pc = "start"
    /\ compiled = NotCompiled
    /\ variables = <<>>
    /\ call = NoCall
    /\ result = NoResult
    /\ sub = NoSub
    /\ emitted = <<>>
    /\ terminal = Open
    /\ toolCalls = 0
    /\ flakyCount = 0
    /\ debugLog = <<>>
    /\ registered = <<>>
    /\ returned = NoReturn
    /\ op_observable = NoObservable
    /\ osub = NoOperatorSub

\* The dependency resolver and compile, over every dependency graph.
InitSort ==
    /\ \E ns \in StepNameLists : \E d \in [DOMAIN ns -> DepLists] :
           pipeline = SortPipeline(ns, d)
    /\ tools = default_tools
    /\ tool_keys = default_keys
    /\ operation = NoOperation
    /\ InitIdle

NextSort == Compile

SpecSort == InitSort /\ [][NextSort]_vars

\* compile, run and the delivery of the result.
Init ==
    /\ (InitBind \/ InitStream)
    /\ tools = custom_tools
    /\ tool_keys = custom_keys
    /\ operation = NoOperation
    /\ InitIdle

Next ==
    \/ Compile
    \/ \E inputs \in CallerInputs(pipeline), options \in OptionSets : Run(inputs, options)
    \/ SubscribeResult
    \/ SubscribeSource
    \/ \E i \in 1..MaxOutputs : Deliver(i)
    \/ TimeoutFires

Spec == Init /\ [][Next]_vars

\* Runs under the execution options over a tool that fails its first runs.
InitOptions ==
    /\ \E k \in 0..MaxFails : tools = register(custom_tools, "flaky", FlakyTool(k))
    /\ tool_keys = register_key(custom_keys, "flaky")
    /\ \E st \in RetryStepLists :
           \E o \in OutputLists(MaxOutputs, NamesOf(st)) \ {<<>>} :
               pipeline = Pipeline(<<>>, st, o)
    /\ operation = NoOperation
    /\ InitIdle

SpecOptions == InitOptions /\ [][Next]_vars

\* compile of a pipeline whose one step is an operation, over every operator
\* of OperatorType drawn and every choice of input expressions.
InitCompile ==
    /\ \E o \in OperatorNames \cup {"retry", "timeout"},
          e \in Seqs(OperationInputs, MaxOperationInputs) :
           pipeline = Pipeline(<<>>, <<IRStep("a", IROperation(o, e), <<>>)>>, <<>>)
    /\ tools = custom_tools
    /\ tool_keys = custom_keys
    /\ operation = NoOperation
    /\ InitIdle

SpecCompile == InitCompile /\ [][NextSort]_vars

\* The names registered and looked up: a default's, two new ones, and one
\* that is never registered.
RegisteredNames == {"callApi", "mine", "other"}

NeverRegistered == "never"

\* The functions registered under a name, told apart by the value their
\* stream yields.
ToolFunctions(name) == {ToolStream(name, <<v>>, Completed) : v \in {1, 2}}

\* A ToolRegistry after construction, and the calls made on it.
InitRegistry ==
    /\ pipeline = Pipeline(<<>>, <<>>, <<>>)
    /\ tools = default_tools
    /\ tool_keys = default_keys
    /\ operation = NoOperation
    /\ InitIdle

NextRegistry ==
    \/ /\ Len(registered) < MaxRegistrations
       /\ \E name \in RegisteredNames : \E tool_fn \in ToolFunctions(name) :
              Register(name, tool_fn)
    \/ \E name \in RegisteredNames \cup {NeverRegistered} : Get(name)
    \/ ListTools

SpecRegistry == InitRegistry /\ [][NextRegistry]_vars

\* The expressions of the steps of a compiled graph: a default tool, a tool
\* that the registry does not hold at first, and a Variable naming an input.
GraphExpressions == {IRTool("callApi"), IRTool("mine"), IRVariable("x")}

GraphStepLists ==
    {<<IRStep("a", e, <<>>)>> : e \in GraphExpressions}
        \cup {<<IRStep("a", e1, <<>>), IRStep("b", e2, <<>>)>> :
                 e1 \in GraphExpressions, e2 \in GraphExpressions}

\* The names asked of get_step: the steps', and one that is no step.
GraphStepNames == {"a", "b", "q"}

\* A runtime over the default registry, its compiled pipeline, and the
\* calls made on both.
InitGraph ==
    /\ \E i \in {<<IRInput("x", FALSE, None)>>, <<IRInput("x", FALSE, 7)>>},
          st \in GraphStepLists,
          o \in OutputLists(1, {"a"}) :
           pipeline = Pipeline(i, st, o)
    /\ tools = default_tools
    /\ tool_keys = default_keys
    /\ operation = NoOperation
    /\ InitIdle

NextGraph ==
    \/ Compile
    \/ \E inputs \in CallerInputs(pipeline) : Run(inputs, DefaultOptions)
    \/ \E inputs \in CallerInputs(pipeline) : RunAgain(inputs, DefaultOptions)
    \/ /\ Len(registered) < MaxToolChanges
       /\ \E name \in {"callApi", "mine"} : \E tool_fn \in ToolFunctions(name) :
              Register(name, tool_fn)
    \/ \E name \in GraphStepNames : GetStep(name)
    \/ GetStepNames

SpecGraph == InitGraph /\ [][NextGraph]_vars

\* The sources of a retry operation: tools that fail always, after a value,
\* on their first runs or never, and a literal.
RetrySources ==
    {IRTool(t) : t \in {"flaky", "fail", "partial", "multi"}} \cup {IRLiteral(5)}

\* What may follow the source in the operation's inputs.
RetrySecondInputs == {<<>>, <<IRLiteral(1)>>, <<IRLiteral(5)>>, <<IRTool("multi")>>}

\* A retry operation, compiled and subscribed.
InitRetryOp ==
    /\ \E e \in RetrySources, more \in RetrySecondInputs :
           operation = IROperation("retry", <<e>> \o more)
    /\ \E k \in 0..MaxFails : tools = register(custom_tools, "flaky", FlakyTool(k))
    /\ tool_keys = register_key(custom_keys, "flaky")
    /\ pipeline = Pipeline(<<>>, <<>>, <<>>)
    /\ InitIdle

NextRetryOp ==
    \/ CompileOperation
    \/ SubscribeOperation
    \/ RetryEvent

\* The scheduler delivers every pending event of the finite sources.
SpecRetryOp == InitRetryOp /\ [][NextRetryOp]_vars /\ WF_vars(NextRetryOp)

\* The expressions of a step that may refer to the step named m: a Variable
\* naming it, or an operation over such a Variable.
ReferenceExpressions(m) ==
    {IRVariable(m), IROperation("concat", <<IRVariable(m), IRLiteral(1)>>)}

\* The steps named n: a literal or a tool without dependencies, or a
\* reference to another step, which it lists as its dependency or not.
ReferenceSteps(n, names) ==
    {IRStep(n, e, <<>>) : e \in {IRLiteral(5), IRTool("callApi")}}
        \cup UNION {{IRStep(n, e, d) : e \in ReferenceExpressions(m), d \in {<<>>, <<m>>}} :
                       m \in names \ {n}}

\* compile of pipelines whose steps refer to each other, in every declared
\* order.
InitRefs ==
    /\ \E ns \in StepNameLists :
           \E st \in [DOMAIN ns -> UNION {ReferenceSteps(n, StepNames) : n \in StepNames}] :
               /\ \A i \in DOMAIN ns : st[i].name = ns[i]
               /\ pipeline = Pipeline(<<>>, st, <<>>)
    /\ tools = default_tools
    /\ tool_keys = default_keys
    /\ operation = NoOperation
    /\ InitIdle

SpecRefs == InitRefs /\ [][NextSort]_vars

\* The step objects of a document: with or without the dependencies key,
\* without the expression key, with a name the pattern rejects, with an
\* expression of no known type.
StepObjects ==
    {[name |-> "a", expression |-> e] : e \in {IRLiteral(5), IRTool("callApi")}}
        \cup {[name |-> "a", expression |-> IRLiteral(5), dependencies |-> d] :
                 d \in {<<>>, <<"a">>, <<"b">>}}
        \cup {[name |-> "b", expression |-> e, dependencies |-> d] :
                 e \in {IRLiteral(5), IRVariable("a")}, d \in {<<>>, <<"a">>}}
        \cup {[name |-> "a"],
              [name |-> "9z", expression |-> IRLiteral(5)],
              [name |-> "a", expression |-> [type |-> "unknown"]]}

\* The input objects of a document.
InputObjects ==
    {[name |-> "x", type |-> "number"],
     [name |-> "x", type |-> "number", optional |-> TRUE],
     [name |-> "x", type |-> "number", default_value |-> 7],
     [name |-> "x"]}

\* The output objects of a document.
OutputObjects ==
    {[name |-> "o1", step_name |-> "a", type |-> "any"],
     [name |-> "o1", step_name |-> "q", type |-> "any"],
     [name |-> "o1", step_name |-> "a", type |-> "stream"]}

\* The most steps of a document.
MaxDocumentSteps == 2

\* The values a document denotes: objects with lists of inputs, steps and
\* outputs, and objects without the steps.
DocumentValues ==
    {[inputs |-> i, steps |-> st, outputs |-> o] :
        i \in {<<>>} \cup {<<x>> : x \in InputObjects},
        st \in {q \in Seqs(StepObjects, MaxDocumentSteps) :
                  \A j, k \in DOMAIN q : j < k => q[j].name # q[k].name},
        o \in {<<>>} \cup {<<x>> : x \in OutputObjects}}
        \cup {[inputs |-> <<>>, outputs |-> <<>>]}

\* The texts handed to run_pipeline_json: text that is not JSON, and the
\* JSON texts of DocumentValues.
Documents ==
    {[syntax |-> "garbage", value |-> <<>>]}
        \cup {[syntax |-> "json", value |-> v] : v \in DocumentValues}

\* The caller's inputs mappings.
JsonInputs == UNION {[S -> {None, 5}] : S \in SUBSET {"x"}}

\* run_pipeline_json and the delivery of the stream it returns.
InitJson ==
    /\ pipeline = Pipeline(<<>>, <<>>, <<>>)
    /\ tools = default_tools
    /\ tool_keys = default_keys
    /\ operation = NoOperation
    /\ InitIdle

NextJson ==
    \/ \E d \in Documents, inputs \in JsonInputs,
          options \in {DefaultOptions, ExecutionOptions(None, 1, FALSE)} :
           RunPipelineJson(d, inputs, options)
    \/ SubscribeResult
    \/ SubscribeSource
    \/ \E i \in 1..MaxOutputs : Deliver(i)

SpecJson == InitJson /\ [][NextJson]_vars

\* One operation, compiled and subscribed, over every choice of operator and
\* input expressions.
InitOps ==
    /\ \E o \in OperatorNames, e \in Seqs(OperationInputs, MaxOperationInputs) :
           operation = IROperation(o, e)
    /\ pipeline = Pipeline(<<>>, <<>>, <<>>)
    /\ tools = custom_tools
    /\ tool_keys = custom_keys
    /\ InitIdle

NextOps ==
    \/ CompileOperation
    \/ SubscribeOperation
    \/ ObservableEvent
    \/ \E i \in 1..MaxOperationInputs : InputEvent(i)
    \/ \E k \in DOMAIN osub.inner : InnerEvent(k)

SpecOps == InitOps /\ [][NextOps]_vars

-----------------------------------------------------------------------------
(* The dependency graph, stated without the resolver *)

\* The declared steps that step n names in its dependency list.
DependsOn(steps, n) ==
    {d \in NamesOf(steps) :
        \E i \in DOMAIN steps :
            /\ steps[i].name = n
            /\ \E k \in DOMAIN steps[i].dependencies : steps[i].dependencies[k] = d}

RECURSIVE Reach(_, _)

\* The steps reachable from the set S along dependencies, S included.
Reach(steps, S) ==
    LET T == S \cup UNION {DependsOn(steps, m) : m \in S}
    IN  IF T = S THEN S ELSE Reach(steps, T)

\* Step n depends on itself, directly or through other steps.
OnCycle(steps, n) == n \in Reach(steps, DependsOn(steps, n))

HasCycle(steps) == \E n \in NamesOf(steps) : OnCycle(steps, n)

\* The places of name n in a list of names.
Places(order, n) == {i \in DOMAIN order : order[i] = n}

-----------------------------------------------------------------------------
(* Claims about the dependency resolver *)

\* C1: for an acyclic step list the resolver returns an ordering in which
\* every declared step has a place, and every declared dependency of a step
\* has a place strictly before that step's.
C1_DependenciesFirst ==
    (pc # "start" /\ ~HasCycle(pipeline.steps)) =>
        /\ compiled.status = "ok"
        /\ \A n \in NamesOf(pipeline.steps) :
              /\ Places(compiled.step_names, n) # {}
              /\ \A d \in DependsOn(pipeline.steps, n) :
                    \A i \in Places(compiled.step_names, n) :
                        \E j \in Places(compiled.step_names, d) : j < i

\* C1 witness: an acyclic list compiled in which a step is declared before a
\* step it depends on, so the resolver had to reorder.
C1_Witness ==
    /\ pc = "compiled"
    /\ \E i, j \in DOMAIN pipeline.steps :
          /\ i < j
          /\ pipeline.steps[j].name \in DependsOn(pipeline.steps, pipeline.steps[i].name)

\* C2: compile raises the circular-dependency failure exactly when the
\* dependency graph over the declared steps has a cycle (a self-dependency
\* included); then nothing is compiled and the step named lies on a cycle.
C2_CircularIffCycle ==
    pc # "start" =>
        /\ compiled.status = "raised" <=> HasCycle(pipeline.steps)
        /\ compiled.status = "raised" =>
              /\ compiled.error = "Circular dependency detected"
              /\ compiled.step_observables = NoObservables
              /\ compiled.step_names = <<>>
              /\ compiled.step \in NamesOf(pipeline.steps)
              /\ OnCycle(pipeline.steps, compiled.step)
        /\ compiled.status = "ok" => pc = "compiled"

\* C2 witness: compile raised on a cycle through two different steps, in a
\* list that also names an undeclared dependency.
C2_Witness ==
    /\ pc = "compile_raised"
    /\ \E n \in NamesOf(pipeline.steps) \ {compiled.step} :
          /\ n \in Reach(pipeline.steps, DependsOn(pipeline.steps, compiled.step))
          /\ compiled.step \in Reach(pipeline.steps, DependsOn(pipeline.steps, n))
    /\ \E i \in DOMAIN pipeline.steps :
          \E k \in DOMAIN pipeline.steps[i].dependencies :
              pipeline.steps[i].dependencies[k] = UnknownStep

-----------------------------------------------------------------------------
(* Claims about run: input binding *)

RunCalled == pc \in {"run_raised", "run_returned", "subscribed"}

\* The declared input has neither a value from the caller (no entry, or the
\* entry None) nor a default.
Unsupplied(input_def) ==
    /\ input_def.name \notin DOMAIN call.inputs \/ call.inputs[input_def.name] = None
    /\ input_def.default_value = None

\* The value run binds the declared input to: the caller's entry when the
\* key is present, else the default.
BoundValue(input_def) ==
    IF input_def.name \in DOMAIN call.inputs THEN call.inputs[input_def.name]
    ELSE input_def.default_value

RaisedMissingInput == result.status = "raised" /\ result.error = "Required input missing"

\* C3: run fails with the missing-required-input error exactly when some
\* declared input is not optional and has neither a caller-supplied value
\* nor a default; and then nothing was subscribed, no tool ran and nothing
\* was emitted.
C3_MissingInputIffUnsupplied ==
    RunCalled =>
        /\ RaisedMissingInput <=>
              \E i \in DOMAIN pipeline.inputs :
                  ~pipeline.inputs[i].optional /\ Unsupplied(pipeline.inputs[i])
        /\ RaisedMissingInput =>
              sub = NoSub /\ toolCalls = 0 /\ emitted = <<>> /\ terminal = Open

\* The step's expression is a Variable naming a declared input.
ReadsInput(step, input_def) ==
    step.expression.type = "variable" /\ step.expression.name = input_def.name

\* C4: when run has bound the declared input x to a value (the caller's, or
\* the default), the stream of a step whose expression is the Variable x
\* produces that value.
C4_VariableReadsBoundInput ==
    (RunCalled /\ result.status = "returned") =>
        \A k \in DOMAIN pipeline.steps : \A i \in DOMAIN pipeline.inputs :
            ReadsInput(pipeline.steps[k], pipeline.inputs[i]) =>
                compiled.step_observables[pipeline.steps[k].name].vals
                    = <<BoundValue(pipeline.inputs[i])>>

-----------------------------------------------------------------------------
(* Claims about run: the result stream *)

\* The result for zero outputs: a stream was returned; once subscribed it
\* has emitted the empty mapping once and completed, and before that nothing.
EmptyMappingOnce ==
    /\ result.status = "returned"
    /\ pc = "run_returned" => emitted = <<>> /\ terminal = Open
    /\ pc = "subscribed" => emitted = <<EmptyMapping>> /\ terminal = Completed

\* C5 as claimed: a pipeline with zero declared outputs yields the empty
\* mapping once and completes, for every input binding and every options
\* setting.
C5_NoOutputsAnyBinding ==
    (RunCalled /\ Len(pipeline.outputs) = 0) => EmptyMappingOnce

\* C5 as amended: the same, for every options setting and every input
\* binding that binds each non-optional declared input to a value other than
\* None.
C5_NoOutputsWhenBound ==
    (/\ RunCalled
     /\ Len(pipeline.outputs) = 0
     /\ \A i \in DOMAIN pipeline.inputs :
           pipeline.inputs[i].optional \/ BoundValue(pipeline.inputs[i]) # None)
        => EmptyMappingOnce

\* C5 witness: zero outputs, a declared input bound from its default, retries,
\* a time bound and debug all set, and the empty mapping delivered.
C5_Witness ==
    /\ pc = "subscribed"
    /\ Len(pipeline.outputs) = 0
    /\ Len(pipeline.inputs) > 0
    /\ call.inputs = <<>>
    /\ call.options.retries > 0 /\ call.options.debug /\ call.options.timeout_ms # None
    /\ emitted = <<EmptyMapping>>
    /\ terminal = Completed

\* The compiled stream of the step an output names.
OutputStream(output_def) == compiled.step_observables[output_def.step_name]

\* A stream was returned for at least one declared output.
Aggregated == RunCalled /\ result.status = "returned" /\ Len(pipeline.outputs) >= 1

\* The values output i's step has produced in subscription s.
ProducedIn(s, i) ==
    IF s.pos[i] <= Len(OutputStream(pipeline.outputs[i]).vals) THEN s.pos[i]
    ELSE Len(OutputStream(pipeline.outputs[i]).vals)

\* Output i's step has failed in subscription s.
FailedIn(s, i) ==
    /\ OutputStream(pipeline.outputs[i]).end # Completed
    /\ s.pos[i] = Len(OutputStream(pipeline.outputs[i]).vals) + 1

\* Output i's step has completed in subscription s without a value.
CompletedEmptyIn(s, i) ==
    /\ OutputStream(pipeline.outputs[i]).end = Completed
    /\ OutputStream(pipeline.outputs[i]).vals = <<>>
    /\ s.pos[i] = 1

\* Every mapping emitted has exactly the declared output names as keys.
FullMappings ==
    \A k \in DOMAIN emitted : DOMAIN emitted[k] = NamesOf(pipeline.outputs)

\* C6 as claimed: once the result of a run with at least one output has
\* terminated, either it completed after emitting at least one full mapping,
\* or it failed with the failure of an output's step stream (the timeout of
\* the timeout_ms option is counted as such a failure here).
C6_CompletesOnlyAfterMapping ==
    (Aggregated /\ terminal # Open) =>
        \/ terminal = Completed /\ Len(emitted) >= 1 /\ FullMappings
        \/ /\ terminal # Completed
           /\ \/ terminal = "Timeout"
              \/ \E i \in DOMAIN pipeline.outputs :
                    OutputStream(pipeline.outputs[i]).end = terminal

\* The state part of C6 as amended.
C6_Outcome ==
    Aggregated =>
        /\ FullMappings
        /\ terminal = Completed =>
              \/ Len(emitted) >= 1
              \/ \E i \in DOMAIN pipeline.outputs : CompletedEmptyIn(sub, i)
        /\ terminal \notin {Open, Completed} =>
              /\ sub.attempt >= call.options.retries
              /\ \/ /\ terminal = "Timeout"
                    /\ call.options.timeout_ms # None
                    /\ \A i \in DOMAIN pipeline.outputs : ~FailedIn(sub, i)
                 \/ \E i \in DOMAIN pipeline.outputs :
                       /\ FailedIn(sub, i)
                       /\ terminal = OutputStream(pipeline.outputs[i]).end
                       /\ \A j \in DOMAIN pipeline.outputs : FailedIn(sub, j) => j = i

\* C6 as amended: the result of a run with at least one output has at most
\* one terminal event and emits nothing after it; every mapping it emits has
\* every declared output name; if it completes, it has emitted a mapping or
\* some output's step completed without a value; if it fails, the error is
\* the only failure its last subscription received, an output step's or the
\* timeout's, and retry allows no further subscription.
C6_OneTerminalEvent ==
    /\ []C6_Outcome
    /\ [][terminal # Open => (terminal' = terminal /\ emitted' = emitted)]_vars

\* C6 witness: two outputs, two subscriptions under retries, a mapping
\* emitted and then an output step's failure as the terminal error.
C6_Witness ==
    /\ Aggregated
    /\ Len(pipeline.outputs) = 2
    /\ sub.attempt = 2
    /\ Len(emitted) >= 1
    /\ terminal = ToolFailure

\* An emission carries, for every output, the latest value its step has
\* produced, and every step has produced one.
EmitsLatest ==
    Len(emitted') > Len(emitted) =>
        /\ Len(emitted') = Len(emitted) + 1
        /\ \A i \in DOMAIN pipeline.outputs :
              /\ ProducedIn(sub', i) >= 1
              /\ emitted'[Len(emitted')][pipeline.outputs[i].name]
                    = OutputStream(pipeline.outputs[i]).vals[ProducedIn(sub', i)]

\* An output's step produces a new value in the current subscription.
NewValue ==
    /\ sub.attempt >= 1
    /\ sub'.attempt = sub.attempt
    /\ \E i \in DOMAIN pipeline.outputs : ProducedIn(sub', i) = ProducedIn(sub, i) + 1

\* A new value is emitted as one mapping once every step has produced a
\* value, and nothing is emitted otherwise.
EmitsPerValue ==
    IF NewValue /\ \A j \in DOMAIN pipeline.outputs : ProducedIn(sub', j) >= 1
    THEN Len(emitted') = Len(emitted) + 1
    ELSE emitted' = emitted

\* C7: every mapping run emits has exactly the declared output names as
\* keys, each mapped to the latest value of the step the output names;
\* nothing is emitted until every output's step has produced a value, and
\* from then on each new value of any output's step is emitted as one mapping.
C7_LatestValueMapping ==
    /\ [](RunCalled => FullMappings)
    /\ [][Aggregated => (EmitsLatest /\ EmitsPerValue)]_vars

\* C7 witness: two outputs naming two different steps, three mappings
\* emitted, the last different from the first.
C7_Witness ==
    /\ Aggregated
    /\ Len(pipeline.outputs) = 2
    /\ pipeline.outputs[1].step_name # pipeline.outputs[2].step_name
    /\ Len(emitted) >= 3
    /\ emitted[Len(emitted)] # emitted[1]

-----------------------------------------------------------------------------
(* The operators *)

\* The operation was compiled with two inputs and its stream completed at
\* the observer.
CompletedOver(operators) ==
    /\ pc = "op_subscribed"
    /\ operation.operator \in operators
    /\ Len(operation.inputs) = 2
    /\ terminal = Completed

\* C8: map and flatMap emit, for each value of input 0, the result the
\* function stream of input 1 produces: with a function stream that always
\* emits c, the completed output is c once for each value of input 0 (input
\* 0 emitting [5] and c = 10 give exactly [10]).
C8_MapEmitsFunctionResult ==
    (CompletedOver({"map", "flatMap"}) /\ operation.inputs[2].type = "literal") =>
        emitted = [j \in DOMAIN op_observable.inputs[1].vals |->
                      operation.inputs[2].value]

\* C9: filter with a predicate stream that always emits False yields no
\* value, and with one that always emits True yields exactly the values of
\* input 0 in order, whatever the truth value of the values themselves.
C9_FilterByPredicate ==
    (CompletedOver({"filter"})
        /\ operation.inputs[2] \in {IRLiteral(0), IRLiteral(1)}) =>
        emitted = IF operation.inputs[2].value = 1
                  THEN op_observable.inputs[1].vals
                  ELSE <<>>

\* An observer is subscribed to the stream of a concat operation.
ConcatSubscribed == pc = "op_subscribed" /\ op_observable.operator = "concat"

\* The values input i has delivered.
Delivered(i) ==
    SubSeq(op_observable.inputs[i].vals, 1,
           IF Exhausted(op_observable.inputs[i], osub.pos[i])
           THEN Len(op_observable.inputs[i].vals) ELSE osub.pos[i])

RECURSIVE DeliveredUpTo(_)

\* The values inputs 1..n have delivered, input after input.
DeliveredUpTo(n) == IF n = 0 THEN <<>> ELSE DeliveredUpTo(n - 1) \o Delivered(n)

\* Input i has delivered its completion.
InputDone(i) ==
    /\ Exhausted(op_observable.inputs[i], osub.pos[i])
    /\ op_observable.inputs[i].end = Completed

\* Input i has delivered its error.
InputFailed(i) ==
    /\ Exhausted(op_observable.inputs[i], osub.pos[i])
    /\ op_observable.inputs[i].end # Completed

\* C10: concat exhausts its inputs in order.  An input is subscribed, and
\* delivers, only after the input before it has completed; the output is
\* the values delivered so far, input after input, and it completes exactly
\* when every input has completed; when an input fails the output fails
\* with its error and no later input is subscribed or delivers.
C10_ConcatInOrder ==
    ConcatSubscribed =>
        LET n == Len(op_observable.inputs)
        IN  /\ \A i \in 2..n :
                   (i \in osub.subscribed \/ osub.pos[i] > 0) => InputDone(i - 1)
            /\ emitted = DeliveredUpTo(n)
            /\ terminal = Completed <=> \A i \in 1..n : InputDone(i)
            /\ \A i \in 1..n :
                   InputFailed(i) =>
                       /\ terminal = op_observable.inputs[i].end
                       /\ \A j \in (i + 1)..n :
                              j \notin osub.subscribed /\ osub.pos[j] = 0

\* C10 witness: concat of [1, 2], of a stream that fails after [1], and of
\* a third stream: the output played 1, 2, 1 and failed, the third input
\* was never subscribed.
C10_Witness ==
    /\ ConcatSubscribed
    /\ Len(op_observable.inputs) = 3
    /\ emitted = <<1, 2, 1>>
    /\ terminal = ToolFailure
    /\ 3 \notin osub.subscribed

\* An observer is subscribed to the stream of the operation, whose operator
\* is name.
Subscribed(name) == pc = "op_subscribed" /\ operation.operator = name

RECURSIVE Interleaves(_, _)

\* out is an interleaving of the sequences seqs: every element of every
\* sequence exactly once, each sequence in its own order.
Interleaves(out, seqs) ==
    IF out = <<>> THEN \A i \in DOMAIN seqs : seqs[i] = <<>>
    ELSE \E i \in DOMAIN seqs :
            /\ seqs[i] # <<>>
            /\ Head(seqs[i]) = Head(out)
            /\ Interleaves(Tail(out), [seqs EXCEPT ![i] = Tail(@)])

\* C11 as stated: once the output of merge has terminated, it has emitted
\* every value of every input exactly once, each input in its own order.
C11_MergeEmitsEveryValue ==
    (Subscribed("merge") /\ terminal # Open) =>
        Interleaves(emitted, [i \in DOMAIN op_observable.inputs |->
                                 op_observable.inputs[i].vals])

\* C11 as amended: merge subscribes every input at once and emits every
\* value an input delivers exactly once, each input in its own order; it
\* completes exactly when every input has completed, and then it has emitted
\* every value of every input; it fails exactly with the error of an input
\* that failed, and the values the other inputs had not delivered by then
\* are never emitted.
C11_MergeInterleaves ==
    Subscribed("merge") =>
        LET n == Len(op_observable.inputs)
        IN  /\ osub.live => osub.subscribed = 1..n
            /\ Interleaves(emitted, [i \in 1..n |-> Delivered(i)])
            /\ terminal = Completed <=> \A i \in 1..n : InputDone(i)
            /\ terminal \notin {Open, Completed} =>
                   \E i \in 1..n :
                       InputFailed(i) /\ terminal = op_observable.inputs[i].end

\* C11 witness: merge of [1, 2] and [5] completed after emitting 5, 1, 2:
\* the second input's value went out before the first input delivered.
C11_Witness ==
    /\ Subscribed("merge")
    /\ Len(op_observable.inputs) = 2
    /\ terminal = Completed
    /\ emitted = <<5, 1, 2>>

\* An observer is subscribed to the stream of a zip operation with two
\* inputs.
ZipSubscribed == Subscribed("zip") /\ op_observable.operator = "combine_latest"

\* An input of the operation delivers a new value.
NewInputValue ==
    \E i \in DOMAIN op_observable.inputs : Produced(osub', i) = Produced(osub, i) + 1

\* A new value of either input, once both have produced one, is emitted as
\* one pair of the latest values; nothing else is emitted.
ZipEmits ==
    IF NewInputValue /\ \A j \in 1..2 : Produced(osub', j) >= 1
    THEN emitted' = Append(emitted,
                        <<op_observable.inputs[1].vals[Produced(osub', 1)],
                          op_observable.inputs[2].vals[Produced(osub', 2)]>>)
    ELSE emitted' = emitted

\* C12: zip with two inputs combines latest values.  It emits nothing until
\* both inputs have produced a value; from then on each new value of either
\* input is emitted as exactly one pair (latest value of input 0, latest
\* value of input 1), whatever the index of the value in its input.
C12_ZipCombinesLatest ==
    /\ [](ZipSubscribed /\ emitted # <<>> => \A j \in 1..2 : Produced(osub, j) >= 1)
    /\ [][ZipSubscribed => ZipEmits]_vars

\* C12 witness: zip of [1, 2] and [5] emitted (1, 5) and then (2, 5), the
\* second value of input 0 paired with the first of input 1.
C12_Witness ==
    /\ ZipSubscribed
    /\ emitted = <<(<<1, 5>>), (<<2, 5>>)>>

\* An observer is subscribed to the stream of an onError operation with two
\* inputs.
OnErrorSubscribed == Subscribed("onError") /\ op_observable.operator = "catch"

\* Input 1 applied to the error of input 0, application being what
\* _apply_function does.
Recovery == apply_function(op_observable.inputs[2], op_observable.inputs[1].end)

\* The events the recovery stream has delivered.
RecoveryPos == IF osub.inner = <<>> THEN 0 ELSE osub.inner[1].pos

-----------------------------------------------------------------------------
(* The retries option *)

\* What source i plays in subscription s.
PlayedSource(s, i) == Played(result.sources[i].stream, s.runs[i])

\* Source i has failed in subscription s.
SourceFailed(s, i) ==
    /\ i <= s.nsub
    /\ PlayedSource(s, i).end # Completed
    /\ s.pos[i] = Len(PlayedSource(s, i).vals) + 1

\* Every source has delivered all its values and completed in subscription s.
AllCompleted(s) ==
    /\ s.attempt >= 1
    /\ \A i \in DOMAIN result.sources :
          /\ i <= s.nsub
          /\ PlayedSource(s, i).end = Completed
          /\ s.pos[i] = Len(PlayedSource(s, i).vals) + 1

\* A run with retries = N > 0 returned the aggregated result.
Retrying == Aggregated /\ call.options.retries > 0

RetryOutcome ==
    /\ sub.attempt <= call.options.retries
    /\ toolCalls <= call.options.retries * Len(pipeline.outputs)
    /\ AllCompleted(sub) =>
          /\ terminal = Completed
          /\ (\A i \in DOMAIN result.sources : PlayedSource(sub, i).vals # <<>>)
                 => Len(emitted) >= 1
    /\ terminal \notin {Open, Completed} =>
          /\ sub.attempt = call.options.retries
          /\ \/ terminal = "Timeout" /\ call.options.timeout_ms # None
             \/ \E i \in DOMAIN result.sources :
                   SourceFailed(sub, i) /\ terminal = PlayedSource(sub, i).end

\* A further subscription is the next one, made while fewer than N were made
\* and in place of reporting a failure: nothing is emitted and the result
\* stays open.
Resubscribes ==
    (sub.attempt >= 1 /\ sub'.attempt # sub.attempt) =>
        /\ sub'.attempt = sub.attempt + 1
        /\ sub.attempt < call.options.retries
        /\ sub'.nsub = 0
        /\ terminal' = Open
        /\ emitted' = emitted

\* C14: with retries = N > 0 the aggregated result is subscribed at most N
\* times, each further subscription following a failure of the one before;
\* a subscription whose sources all complete yields a completed result with
\* its mappings, whatever failed before; a failed run reports the failure
\* of its N-th subscription.
C14_RetriesResubscribe ==
    /\ [](Retrying => RetryOutcome)
    /\ [][Retrying => Resubscribes]_vars

\* C14 witness: retries = 2, no timeout, the tool fails once, and the second
\* subscription emits a mapping and completes.
C14_Witness ==
    /\ Retrying
    /\ call.options.retries = 2
    /\ call.options.timeout_ms = None
    /\ tools["flaky"].fails = 1
    /\ Len(pipeline.outputs) = 1
    /\ sub.attempt = 2
    /\ AllCompleted(sub)
    /\ emitted = <<[o1 |-> ToolResult]>>
    /\ terminal = Completed

-----------------------------------------------------------------------------
(* The timeout_ms option *)

\* A run with timeout_ms set and retries = 0 returned the aggregated result.
TimedRun ==
    /\ Aggregated
    /\ call.options.timeout_ms \notin {None, 0}
    /\ call.options.retries = 0

\* No source delivers an event in this step.
NoSourceEvent == sub'.pos = sub.pos /\ sub'.nsub = sub.nsub

\* The bound elapses while the result waits for its next event: the
\* subscription ends though no source delivered anything.
BoundElapses == sub.live /\ ~sub'.live /\ NoSourceEvent

\* C15 as claimed: when the bound elapses before a combined emission the
\* run fails with a timeout error and emits nothing afterwards; a run that
\* has emitted a mapping does not fail with a timeout.
C15_NoTimeoutAfterEmission ==
    /\ [][(TimedRun /\ BoundElapses) => (terminal' = "Timeout" /\ emitted' = emitted)]_vars
    /\ [][(TimedRun /\ terminal = "Timeout") => emitted' = emitted]_vars
    /\ []((TimedRun /\ emitted # <<>>) => terminal # "Timeout")

\* C15 as amended: with timeout_ms set and retries = 0, when the bound
\* elapses while the result waits for its next event, before the first
\* mapping or after one, the run fails with a timeout error, and no
\* mapping is emitted and no other terminal event follows after that
\* failure; the result that is ended by an event of a source ends with that
\* event's completion or error, never with a timeout.
C15_TimeoutBoundsEveryWait ==
    /\ [][(TimedRun /\ BoundElapses) => (terminal' = "Timeout" /\ emitted' = emitted)]_vars
    /\ [][(TimedRun /\ terminal = "Timeout") =>
            (emitted' = emitted /\ terminal' = terminal /\ ~sub'.live)]_vars
    /\ [][(TimedRun /\ terminal = Open /\ terminal' # Open /\ ~NoSourceEvent) =>
            terminal' # "Timeout"]_vars
    /\ []((TimedRun /\ terminal = "Timeout") => (sub.attempt = 1 /\ ~sub.live))

\* C15 witness: the output's step is a tool stream of two values; the first
\* was emitted in time, and the bound elapsed before the second.
C15_Witness ==
    /\ TimedRun
    /\ Len(pipeline.outputs) = 1
    /\ OutputStream(pipeline.outputs[1]).vals = <<1, 2>>
    /\ emitted = <<[o1 |-> 1]>>
    /\ sub.attempt = 1
    /\ terminal = "Timeout"

-----------------------------------------------------------------------------
(* Malformed operations *)

\* The operators _compile_operation has a branch for.
ImplementedOperators == TwoInputOperators \cup {"merge", "concat", "retry", "timeout"}

\* An operation with the wrong number of inputs for its operator, or with an
\* operator the compiler does not implement.
Malformed(op) ==
    \/ op.operator \in TwoInputOperators /\ Len(op.inputs) # 2
    \/ op.operator \in {"merge", "concat", "retry", "timeout"} /\ Len(op.inputs) = 0
    \/ op.operator \notin ImplementedOperators

\* C16 as claimed: compiling a pipeline with a malformed operation fails at
\* compile time with a malformed-operation error, and no CompiledPipeline is
\* returned.
C16_MalformedFailsCompile ==
    (pc # "start" /\ \E i \in DOMAIN pipeline.steps :
                        /\ pipeline.steps[i].expression.type = "operation"
                        /\ Malformed(pipeline.steps[i].expression)) =>
        /\ pc = "compile_raised"
        /\ compiled.status = "raised"
        /\ compiled.step_observables = NoObservables

-----------------------------------------------------------------------------
(* Unresolved variables *)

\* The names of the steps compiled before the step named n.
CompiledBefore(n) ==
    {compiled.step_names[j] :
        j \in {k \in DOMAIN compiled.step_names :
                  \A m \in Places(compiled.step_names, n) : k < m}}

\* Step i holds a bad reference: a Variable whose name is not that of a
\* step compiled before it (no input is bound while compile runs).
BadReference(i) ==
    /\ pipeline.steps[i].expression.type = "variable"
    /\ pipeline.steps[i].expression.name \notin CompiledBefore(pipeline.steps[i].name)

\* The declared steps that hold a bad reference.
BadSteps == {pipeline.steps[i].name : i \in {k \in DOMAIN pipeline.steps : BadReference(k)}}

\* C17: a Variable naming neither a bound input nor a compiled step does not
\* abort compile: the CompiledPipeline has every declared step; the stream
\* of the step with the bad reference has no value and fails at once with
\* the unknown-variable error; the stream of every step that is not a
\* Variable is what its own expression compiles to; a result with an output
\* on the bad step emits nothing and never completes.
C17_BadReferenceFailsItsStepOnly ==
    pc # "start" =>
        /\ compiled.status = "ok"
        /\ {compiled.step_names[j] : j \in DOMAIN compiled.step_names}
              = NamesOf(pipeline.steps)
        /\ DOMAIN compiled.step_observables = NamesOf(pipeline.steps)
        /\ \A i \in DOMAIN pipeline.steps :
              /\ BadReference(i) =>
                    /\ compiled.step_observables[pipeline.steps[i].name].vals = <<>>
                    /\ compiled.step_observables[pipeline.steps[i].name].end
                          = "Unknown variable"
              /\ pipeline.steps[i].expression.type # "variable" =>
                    compiled.step_observables[pipeline.steps[i].name]
                        = compile_expression(pipeline.steps[i].expression,
                                             RuntimeContext(tools))
        /\ (Aggregated /\ \E k \in DOMAIN pipeline.outputs :
                              pipeline.outputs[k].step_name \in BadSteps) =>
              /\ emitted = <<>>
              /\ terminal # Completed

\* C17 witness: step b holds the bad reference and step a is a tool of two
\* values; with an output on each, a has delivered both its values, and
\* the result failed with b's error.
C17_Witness ==
    /\ Aggregated
    /\ Len(pipeline.steps) = 2
    /\ BadSteps = {"b"}
    /\ compiled.step_observables["a"] = tools["multi"]
    /\ Len(pipeline.outputs) = 2
    /\ pipeline.outputs[1].step_name = "a"
    /\ pipeline.outputs[2].step_name = "b"
    /\ emitted = <<>>
    /\ terminal = "Unknown variable"
    /\ sub.pos[1] = 2

-----------------------------------------------------------------------------
(* The tool registry *)

\* The places of the register calls made under name.
RegistrationsOf(name) == {i \in DOMAIN registered : registered[i][1] = name}

\* The names registered so far, the defaults of the constructor included.
NamesRegistered ==
    DefaultToolNames \cup {registered[i][1] : i \in DOMAIN registered}

\* What get(name) has to return after the calls made so far.
Answer(name) ==
    IF RegistrationsOf(name) # {}
    THEN [found |-> TRUE,
          tool_fn |-> registered[CHOOSE i \in RegistrationsOf(name) :
                                   \A j \in RegistrationsOf(name) : j <= i][2]]
    ELSE IF name \in DefaultToolNames
    THEN [found |-> TRUE, tool_fn |-> default_tools[name]]
    ELSE [found |-> FALSE, tool_fn |-> Empty]

\* The registry holds, for every name, the function registered last, and
\* its keys are the names registered so far, each once.
RegistryHolds ==
    /\ \A name \in RegisteredNames \cup DefaultToolNames \cup {NeverRegistered} :
          get(tools, name) = Answer(name)
    /\ {list_tools(tool_keys)[i] : i \in DOMAIN list_tools(tool_keys)} = NamesRegistered
    /\ Injective(list_tools(tool_keys))

\* A get or list_tools call returns what the registry holds at the call.
ReturnsWhatIsHeld ==
    returned' # returned =>
        /\ registered' = registered
        /\ returned'.call = "get" =>
              /\ returned'.found = Answer(returned'.name).found
              /\ returned'.tool_fn = Answer(returned'.name).tool_fn
        /\ returned'.call = "list_tools" =>
              /\ {returned'.names[i] : i \in DOMAIN returned'.names} = NamesRegistered
              /\ Injective(returned'.names)

\* C18: after any sequence of register calls, get(name) returns the
\* function registered last under name, get of a name never registered
\* returns the absent marker, and list_tools returns exactly the names
\* registered so far, the five defaults included.
C18_RegistryKeepsLastRegistration ==
    /\ []RegistryHolds
    /\ [][ReturnsWhatIsHeld]_vars

\* C18 witness: a name was registered twice with different functions, the
\* second time over a default's name too, and get returned the later one.
C18_Witness ==
    /\ Len(registered) = 3
    /\ registered[1][1] = "mine"
    /\ registered[2] = <<"mine", ToolStream("mine", <<2>>, Completed)>>
    /\ registered[2] # registered[1]
    /\ registered[3][1] = "callApi"
    /\ returned.call = "get"
    /\ returned.name = "mine"
    /\ returned.found
    /\ returned.tool_fn = ToolStream("mine", <<2>>, Completed)

-----------------------------------------------------------------------------
(* The debug option *)

\* One trace record for each mapping delivered, in order, and one for the
\* failure delivered.
TraceOfDelivery ==
    [k \in 1..Len(emitted) |->
        [message |-> "Pipeline result:", value |-> emitted[k], error |-> ""]]
    \o (IF terminal \in {Open, Completed} THEN <<>>
        ELSE <<[message |-> "Pipeline error:", value |-> EmptyMapping,
                error |-> terminal]>>)

\* C19 as claimed: debug adds one trace record for each emission and for
\* the failure of the stream run returned, and nothing without debug.
C19_DebugTracesEveryEmission ==
    (RunCalled /\ result.status = "returned") =>
        debugLog = IF call.options.debug THEN TraceOfDelivery ELSE <<>>

\* What is delivered does not depend on debug: each mapping delivered is the
\* one combine_latest produced, and a failure delivered is the timeout's or
\* that of a source of the last subscription.
DeliversUnaltered ==
    /\ emitted' # emitted =>
          emitted' = Append(emitted, merge_outputs(result.sources, sub'.latest))
    /\ (terminal = Open /\ terminal' \notin {Open, Completed}) =>
          \/ terminal' = "Timeout"
          \/ \E i \in DOMAIN result.sources :
                SourceFailed(sub', i) /\ terminal' = PlayedSource(sub', i).end

\* C19 as amended: with or without debug the caller receives the mappings
\* the aggregated result produces and its terminal event unaltered; with
\* debug, a run with at least one output writes one trace record for each
\* mapping delivered and one for the failure delivered, in the order of
\* delivery; a run with zero outputs writes none, and so does every run
\* without debug.
C19_DebugOnlyTraces ==
    /\ [][Aggregated => DeliversUnaltered]_vars
    /\ [](Aggregated =>
            debugLog = IF call.options.debug THEN TraceOfDelivery ELSE <<>>)
    /\ []((RunCalled /\ Len(pipeline.outputs) = 0) => debugLog = <<>>)

\* C19 witness: debug and retries set; two subscriptions each delivered a
\* mapping, the second one's failure was delivered, and three records were
\* written.
C19_Witness ==
    /\ Aggregated
    /\ call.options.debug
    /\ sub.attempt = 2
    /\ Len(emitted) = 2
    /\ terminal = ToolFailure
    /\ Len(debugLog) = 3
    /\ debugLog[3].error = ToolFailure

-----------------------------------------------------------------------------
(* Declaration order in the resolver's result *)

\* The transitive dependencies of step n.
Dependencies(n) == Reach(pipeline.steps, DependsOn(pipeline.steps, n))

\* Neither step depends on the other.
Independent(m, n) == m \notin Dependencies(n) /\ n \notin Dependencies(m)

\* The place of step n in the declared list.
Declared(n) == CHOOSE i \in DOMAIN pipeline.steps : pipeline.steps[i].name = n

\* The place of the first declared step that is n or depends on n: the
\* top-level visit that reaches n.
FirstReached(n) ==
    CHOOSE i \in DOMAIN pipeline.steps :
        /\ n \in Reach(pipeline.steps, {pipeline.steps[i].name})
        /\ \A j \in DOMAIN pipeline.steps :
              n \in Reach(pipeline.steps, {pipeline.steps[j].name}) => i <= j

\* Step m has its place before step n's in the resolver's result.
Precedes(m, n) ==
    \A i \in Places(compiled.step_names, m) :
        \A j \in Places(compiled.step_names, n) : i < j

\* The resolver returned an ordering of an acyclic step list.
Sorted == pc # "start" /\ ~HasCycle(pipeline.steps)

\* C20 as claimed: two steps of an acyclic step list of which neither
\* depends on the other appear in the result in their declared order.
C20_IndependentKeepDeclaredOrder ==
    Sorted =>
        \A m, n \in NamesOf(pipeline.steps) :
            (Independent(m, n) /\ Declared(m) < Declared(n)) => Precedes(m, n)

\* C20 as amended: in the result for an acyclic step list, a step reached by
\* an earlier top-level visit (it is, or is a dependency of, an earlier
\* declared step) precedes a step reached only by a later one; so two steps
\* keep their declared order when neither is a dependency of a step
\* declared before it, while a step that is such a dependency is placed
\* with its first dependent and can precede independent steps declared
\* before it.
C20_OrderOfFirstVisit ==
    Sorted =>
        /\ \A m, n \in NamesOf(pipeline.steps) :
              /\ FirstReached(m) < FirstReached(n) => Precedes(m, n)
              /\ (/\ Declared(m) < Declared(n)
                  /\ FirstReached(m) = Declared(m)
                  /\ FirstReached(n) = Declared(n)) => Precedes(m, n)

\* C20 witness: a (depending on c), b, c are declared in this order; b and
\* c are independent, and the result is c, a, b.
C20_Witness ==
    /\ Sorted
    /\ [i \in DOMAIN pipeline.steps |-> pipeline.steps[i].name] = <<"a", "b", "c">>
    /\ Dependencies("a") = {"c"}
    /\ Independent("b", "c")
    /\ compiled.step_names = <<"c", "a", "b">>

-----------------------------------------------------------------------------
(* Dependencies that name no step *)

\* The names of the declared steps, in declared order.
DeclaredNames == [i \in DOMAIN pipeline.steps |-> pipeline.steps[i].name]

\* Some step names a dependency that is no declared step.
NamesUnknownStep ==
    \E i \in DOMAIN pipeline.steps :
        \E k \in DOMAIN pipeline.steps[i].dependencies :
            pipeline.steps[i].dependencies[k] \notin NamesOf(pipeline.steps)

\* C21: for an acyclic step list with unique names, whether or not a step
\* names a dependency that is no declared step, compile does not fail, and
\* get_step_names of the compiled pipeline is a permutation of the declared
\* step names: every declared name exactly once and nothing else.
C21_UnknownDependencySkipped ==
    (Sorted /\ Injective(DeclaredNames)) =>
        /\ pc = "compiled"
        /\ compiled.status = "ok"
        /\ Len(get_step_names(compiled)) = Len(pipeline.steps)
        /\ Len(compiled.step_names) = Len(pipeline.steps)
        /\ \A n \in NamesOf(pipeline.steps) :
              /\ Cardinality(Places(get_step_names(compiled), n)) = 1
              /\ Cardinality(Places(compiled.step_names, n)) = 1
        /\ \A i \in DOMAIN get_step_names(compiled) :
              get_step_names(compiled)[i] \in NamesOf(pipeline.steps)

\* C21 witness: a names an undeclared step and b as its dependencies, in
\* this order; b is declared after a, and the compiled names are b, a.
C21_Witness ==
    /\ Sorted
    /\ NamesUnknownStep
    /\ DeclaredNames = <<"a", "b">>
    /\ pipeline.steps[1].dependencies = <<UnknownStep, "b">>
    /\ get_step_names(compiled) = <<"b", "a">>

-----------------------------------------------------------------------------
(* The compiled graph *)

\* compile has returned a CompiledPipeline.
Constructed == pc \in {"compiled", "run_raised", "run_returned"}

\* A step leaves the compiled step names and the stream of every step as
\* they are.
GraphUnchanged ==
    /\ get_step_names(compiled)' = get_step_names(compiled)
    /\ \A n \in GraphStepNames : get_step(compiled, n)' = get_step(compiled, n)

\* get_step and get_step_names return what compile stored.
ReturnsCompiled ==
    /\ returned.call = "get_step" =>
          /\ returned.found = (returned.name \in NamesOf(pipeline.steps))
          /\ returned.found =>
                returned.tool_fn = compiled.step_observables[returned.name]
    /\ returned.call = "get_step_names" =>
          returned.names = compiled.step_names

\* C22: after compile has returned, no run call, failing or not, no
\* get_step call and no registration of a tool, new or overwriting, changes
\* the compiled step names or the stream get_step returns for a step.
C22_GraphFixedAfterCompile ==
    /\ [][Constructed => GraphUnchanged]_vars
    /\ [](Constructed => ReturnsCompiled)

\* C22 witness: step a names a tool the registry did not hold when compile
\* ran, step b is a Variable naming an input; since then the tool was
\* registered, a default was overwritten, and run has bound the input; and
\* get_step still returns a's failing stream.
C22_Witness ==
    /\ pc = "run_returned"
    /\ Len(pipeline.steps) = 2
    /\ pipeline.steps[1].expression = IRTool("mine")
    /\ pipeline.steps[2].expression = IRVariable("x")
    /\ "mine" \in DOMAIN tools
    /\ tools["callApi"] # default_tools["callApi"]
    /\ "x" \in DOMAIN variables
    /\ returned.call = "get_step"
    /\ returned.name = "a"
    /\ returned.tool_fn = Throw("Unknown tool")
    /\ get_step(compiled, "b").observable = Throw("Unknown variable")

-----------------------------------------------------------------------------
(* The retry operator *)

\* A retry operation is subscribed.
RetrySubscribed == Subscribed("retry")

\* What the source plays in the current subscription.
RetryPlayed == Played(op_observable.inputs[1], osub.runs)

\* The current subscription to the source has delivered its terminal event.
RetryAttemptOver == osub.pos[1] = Len(RetryPlayed.vals) + 1

RetryOperatorOutcome ==
    /\ osub.attempt \in 1..3
    /\ toolCalls <= 3
    /\ (RetryAttemptOver /\ RetryPlayed.end = Completed) => terminal = Completed
    /\ terminal = Completed => (RetryAttemptOver /\ RetryPlayed.end = Completed)
    /\ terminal \notin {Open, Completed} =>
          /\ osub.attempt = 3
          /\ RetryAttemptOver
          /\ terminal = RetryPlayed.end

\* A further subscription is the next one, made while fewer than 3 were
\* made, with the output still open.
RetryOperatorResubscribes ==
    osub'.attempt # osub.attempt =>
        /\ osub'.attempt = osub.attempt + 1
        /\ osub.attempt < 3
        /\ terminal' = Open
        /\ emitted' = emitted

\* C23: the retry operator subscribes to input 0 at most 3 times, whatever
\* its second input; the output completes as soon as a subscription
\* completes, fails with the third subscription's error when all three
\* fail, and always terminates.
C23_RetryOperatorThreeAttempts ==
    /\ [](RetrySubscribed => RetryOperatorOutcome)
    /\ [][RetrySubscribed => RetryOperatorResubscribes]_vars
    /\ <>(terminal # Open)

\* C23 witness: the second input is the literal 1, the tool fails twice, and
\* the third subscription yields its result and completes.
C23_Witness ==
    /\ RetrySubscribed
    /\ operation.inputs = <<IRTool("flaky"), IRLiteral(1)>>
    /\ tools["flaky"].fails = 2
    /\ osub.attempt = 3
    /\ toolCalls = 3
    /\ emitted = <<ToolResult>>
    /\ terminal = Completed

-----------------------------------------------------------------------------
(* References to steps *)

\* The streams that the Variables named m in expression e resolved to, in
\* the stream compiled for e.
ResolvedTo(e, stream, m) ==
    IF e.type = "variable" THEN IF e.name = m THEN {stream} ELSE {}
    ELSE IF e.type = "operation"
    THEN {stream.inputs[k] :
            k \in {j \in DOMAIN e.inputs :
                      e.inputs[j].type = "variable" /\ e.inputs[j].name = m}}
    ELSE {}

\* The expression contains a Variable named m.
RefersTo(e, m) ==
    \/ e.type = "variable" /\ e.name = m
    \/ /\ e.type = "operation"
       /\ \E j \in DOMAIN e.inputs : e.inputs[j].type = "variable" /\ e.inputs[j].name = m

\* C24: in an acyclic pipeline, when step B lists step A in its
\* dependencies and B's expression contains a Variable named A, A is
\* compiled before B and every such Variable resolves to the stream compiled
\* for A, the one get_step(A) returns, in whatever order A and B are declared.
C24_ListedDependencyResolves ==
    Sorted =>
        /\ compiled.status = "ok"
        /\ \A i \in DOMAIN pipeline.steps :
              \A m \in DependsOn(pipeline.steps, pipeline.steps[i].name) :
                  RefersTo(pipeline.steps[i].expression, m) =>
                      /\ Precedes(m, pipeline.steps[i].name)
                      /\ get_step(compiled, m).found
                      /\ ResolvedTo(pipeline.steps[i].expression,
                                    get_step(compiled, pipeline.steps[i].name).observable,
                                    m)
                            = {get_step(compiled, m).observable}

\* C24 witness: b is declared before a, lists a as its dependency and is an
\* operation over the Variable a; a is compiled first and the operation's
\* input is the tool stream compiled for a.
C24_Witness ==
    /\ Sorted
    /\ DeclaredNames = <<"b", "a">>
    /\ pipeline.steps[1] = IRStep("b", IROperation("concat", <<IRVariable("a"), IRLiteral(1)>>), <<"a">>)
    /\ pipeline.steps[2].expression = IRTool("callApi")
    /\ get_step_names(compiled) = <<"a", "b">>
    /\ get_step(compiled, "b").observable.inputs[1] = default_tools["callApi"]
    /\ get_step(compiled, "a").observable = default_tools["callApi"]

-----------------------------------------------------------------------------
(* run_pipeline_json *)

\* run_pipeline_json was called.
JsonCalled == pc # "start"

\* The text is JSON but its value is no Pipeline.
FailsValidation ==
    /\ json_loads(call.pipeline_json).ok
    /\ ~model_validate(json_loads(call.pipeline_json).data).ok

\* The exception of the first stage of the call that raised one: parsing,
\* validation, compile or run; "" when none did.
StageFailure ==
    LET loaded == json_loads(call.pipeline_json)
        validated == model_validate(loaded.data)
        c == compile(validated.pipeline, default_tools)
        r == run(validated.pipeline, c.step_observables, <<>>, call.inputs, call.options)
    IN  IF ~loaded.ok THEN loaded.error
        ELSE IF ~validated.ok THEN validated.error
        ELSE IF c.status = "raised" THEN c.error
        ELSE IF r.result.status = "raised" THEN r.result.error
        ELSE ""

\* C25: run_pipeline_json never raises: it returns a stream, and when
\* parsing the text, validating it, compiling it or binding the inputs and
\* collecting the outputs raised, the stream it returns emits nothing and,
\* as soon as it is subscribed, has failed with that one error; a document
\* that fails validation leaves nothing compiled.
C25_JsonFailuresReturned ==
    JsonCalled =>
        /\ pc \notin {"compile_raised", "run_raised"}
        /\ result.status = "returned"
        /\ StageFailure # "" =>
              /\ result.kind = "throw"
              /\ emitted = <<>>
              /\ toolCalls = 0
              /\ terminal = IF pc = "subscribed"
                            THEN "Failed to run pipeline: " \o StageFailure
                            ELSE Open
        /\ FailsValidation => compiled = NotCompiled /\ pipeline.steps = <<>>

\* C25 witnesses: a subscribed stream that failed with the wrapped error of
\* each stage.
C25_Witness ==
    /\ pc = "subscribed"
    /\ call.pipeline_json.syntax = "json"
    /\ model_validate(call.pipeline_json.value).ok
    /\ HasCycle(pipeline.steps)
    /\ compiled.status = "raised"
    /\ emitted = <<>>
    /\ terminal = "Failed to run pipeline: Circular dependency detected"

====
